---- MODULE Spec2Model ----
(***************************************************************************)
(* Connectivity resolver and resilient client of the file-management       *)
(* front end.  Two variants of the client module exist in the repository:  *)
(*   "plain"  : src/unnamed/part_000 (normalises the configured URL, no    *)
(*              auto-detection, no wake-up),                               *)
(*   "detect" : src/unnamed/part_001 (health-probed auto-detection,        *)
(*              wake-up and one retry in the response interceptor).        *)
(* Every async function is modelled as a frame (a record) that is advanced *)
(* from one await to the next; the network chooses the outcome of every    *)
(* request.                                                                *)
(***************************************************************************)
EXTENDS Integers, Sequences, FiniteSets, TLC

(***************************************************************************)
(* Bounds of the model.                                                    *)
(***************************************************************************)
MaxLen == 3          \* longest generated configured URL, in symbols
MaxRetries == 3      \* largest `retries` argument given to checkApiHealth

(***************************************************************************)
(* Strings.  A URL is a sequence of symbols; "/" and " " are single        *)
(* characters, every other symbol is a run of ordinary characters.         *)
(***************************************************************************)
Null == <<"null">>                                   \* JS null / undefined
localUrl == <<"http:", "/", "/", "localhost:5000">>
exampleUrl == <<"https:", "/", "/", "api.example.com", "/", "/", "/">>
healthPath == <<"/", "api", "/", "health">>

Symbols == {"x", "/", " "}

RECURSIVE SeqsUpTo(_)
SeqsUpTo(n) ==
    IF n = 0 THEN {<<>>}
    ELSE LET shorter == SeqsUpTo(n - 1)
         IN  shorter \cup {Append(s, c) : s \in {t \in shorter : Len(t) = n - 1}, c \in Symbols}

\* values import.meta.env.VITE_API_URL can take
EnvUrls ==
    {Null} \cup SeqsUpTo(MaxLen)
           \cup {localUrl, localUrl \o <<"/">>, exampleUrl, <<" ">> \o exampleUrl \o <<" ">>}

\* JS truthiness of a string-or-null value
Truthy(s) == s # Null /\ s # <<>>

\* String.prototype.trim
RECURSIVE TrimLeft(_)
TrimLeft(s) == IF s # <<>> /\ Head(s) = " " THEN TrimLeft(Tail(s)) ELSE s

RECURSIVE TrimRight(_)
TrimRight(s) ==
    IF s # <<>> /\ s[Len(s)] = " " THEN TrimRight(SubSeq(s, 1, Len(s) - 1)) ELSE s

trim(s) == TrimLeft(TrimRight(s))

\* s.replace(/\/+$/, '')
RECURSIVE StripTrailingSlashes(_)
StripTrailingSlashes(s) ==
    IF s # <<>> /\ s[Len(s)] = "/"
    THEN StripTrailingSlashes(SubSeq(s, 1, Len(s) - 1))
    ELSE s

EndsWithSlash(s) == s # Null /\ s # <<>> /\ s[Len(s)] = "/"

\* the constructed URL contains "//api"
HasDoubleSlashApi(u) ==
    \E k \in 1..(Len(u) - 2) : u[k] = "/" /\ u[k + 1] = "/" /\ u[k + 2] = "api"

(***************************************************************************)
(* The network.  Every request ends in an HTTP reply or in a transport     *)
(* error; axios turns a reply that fails validateStatus into a thrown      *)
(* error that carries the response.                                        *)
(***************************************************************************)
Statuses == {200, 404, 500}
Bodies == {"ok", "other", "none"}      \* data.status === 'ok', other data, no data
TransportCodes == {"ERR_NAME_NOT_RESOLVED", "ERR_NETWORK", "ECONNABORTED", "ETIMEDOUT"}
ErrorCodes == TransportCodes \cup {"OTHER"}

HttpReplies == [kind : {"http"}, status : Statuses, body : Bodies]
NetErrors == [kind : {"neterr"}, code : ErrorCodes]
RawOutcomes == HttpReplies \cup NetErrors

\* mutant: every status is accepted
validateStatusAny(status) == status < 600

\* validateStatus: (status) => status < 500
validateStatus(status) == status < 500

\* what `await axios.get(...)` yields: a response value or a thrown error
AxiosSettle(raw) ==
    IF raw.kind = "http"
    THEN IF validateStatus(raw.status)
         THEN [kind |-> "response", status |-> raw.status, body |-> raw.body]
         ELSE [kind |-> "thrown", code |-> "ERR_BAD_RESPONSE", hasResponse |-> TRUE,
               status |-> raw.status, body |-> raw.body]
    ELSE [kind |-> "thrown", code |-> raw.code, hasResponse |-> FALSE,
          status |-> 0, body |-> "none"]

\* response.data && response.data.status === 'ok'
BodyIsOk(settled) == settled.kind = "response" /\ settled.body = "ok"

(***************************************************************************)
(* checkApiHealth(url, retries).  Frame fields: i is the loop counter, pc  *)
(* the await the call is suspended at ("get": axios.get, "sleep": the      *)
(* backoff timer), probes the number of requests issued, target the URL of *)
(* the last request, seen the raw outcomes received, delays the backoff    *)
(* timers started.                                                         *)
(***************************************************************************)
Variants == {"plain", "detect"}

plainTransportBackoffMs == 2000
plainOtherBackoffMs == 1000
detectBackoffMs == 1000
plainProbeTimeoutMs == 10000
detectProbeTimeoutMs == 5000
defaultRetries == 3

NoResult == [pending |-> TRUE]

\* const cleanUrl = url ? url.replace(/\/+$/, '') : url   (plain variant only)
cleanUrl(variant, url) ==
    IF variant = "plain"
    THEN IF Truthy(url) THEN StripTrailingSlashes(url) ELSE url
    ELSE url

\* the URL handed to axios.get
healthUrl(variant, url) ==
    IF variant = "plain"
    THEN IF Truthy(cleanUrl(variant, url)) THEN cleanUrl(variant, url) \o healthPath
         ELSE healthPath
    ELSE url \o healthPath

\* the codes the plain variant classifies as transport failures
PlainRetryCodes == {"ERR_NAME_NOT_RESOLVED", "ERR_NETWORK", "ECONNABORTED"}

\* loop head `for (...; i < retries; ...)`: issue the next probe, or leave the loop
HealthLoop(h) ==
    IF h.i < h.retries
    THEN [h EXCEPT !.pc = "get", !.probes = @ + 1,
                   !.target = healthUrl(h.variant, h.url)]
    ELSE [h EXCEPT !.pc = "done", !.result = [success |-> FALSE]]

\* the call itself: runs synchronously up to its first await
HealthCall(variant, url, retries) ==
    HealthLoop([variant |-> variant, url |-> url, retries |-> retries, i |-> 0,
                pc |-> "idle", probes |-> 0, target |-> Null, seen |-> <<>>,
                delays |-> <<>>, result |-> NoResult])

\* mutant: an error the catch block does not classify is thrown again
HealthCatchRethrows(h, err) ==
    LET last == (h.i = h.retries - 1)
        failed == [h EXCEPT !.pc = "done", !.result = [success |-> FALSE, error |-> err]]
        sleep(ms) == [h EXCEPT !.pc = "sleep", !.delays = Append(@, ms)]
    IN  IF err.code \in PlainRetryCodes
        THEN IF last THEN failed ELSE sleep(plainTransportBackoffMs * (h.i + 1))
        ELSE [h EXCEPT !.pc = "threw"]

\* mutant: the last attempt is tested as i === retries
HealthCatchOffByOne(h, err) ==
    LET last == (h.i = h.retries)
        failed == [h EXCEPT !.pc = "done", !.result = [success |-> FALSE, error |-> err]]
        sleep(ms) == [h EXCEPT !.pc = "sleep", !.delays = Append(@, ms)]
    IN  IF last THEN failed ELSE sleep(detectBackoffMs * (h.i + 1))

\* mutant: the backoff does not grow with the attempt number
HealthCatchFlatDelay(h, err) ==
    LET last == (h.i = h.retries - 1)
        failed == [h EXCEPT !.pc = "done", !.result = [success |-> FALSE, error |-> err]]
        sleep(ms) == [h EXCEPT !.pc = "sleep", !.delays = Append(@, ms)]
    IN  IF h.variant = "plain"
        THEN IF err.code \in PlainRetryCodes
             THEN IF last THEN failed ELSE sleep(plainTransportBackoffMs)
             ELSE IF last THEN failed ELSE sleep(plainOtherBackoffMs)
        ELSE IF last THEN failed ELSE sleep(detectBackoffMs)

\* the catch block
HealthCatch(h, err) ==
    LET last == (h.i = h.retries - 1)
        failed == [h EXCEPT !.pc = "done", !.result = [success |-> FALSE, error |-> err]]
        sleep(ms) == [h EXCEPT !.pc = "sleep", !.delays = Append(@, ms)]
    IN  IF h.variant = "plain"
        THEN IF err.code \in PlainRetryCodes
             THEN IF last THEN failed ELSE sleep(plainTransportBackoffMs * (h.i + 1))
             ELSE IF last THEN failed ELSE sleep(plainOtherBackoffMs * (h.i + 1))
        ELSE IF last THEN failed ELSE sleep(detectBackoffMs * (h.i + 1))

\* mutant: a response without status 'ok' is handled as a thrown error
HealthSettleThrowsOnBody(h, raw) ==
    LET settled == AxiosSettle(raw)
        g == [h EXCEPT !.seen = Append(@, raw)]
    IN  IF BodyIsOk(settled)
        THEN [g EXCEPT !.pc = "done", !.result = [success |-> TRUE, url |-> h.url]]
        ELSE HealthCatch(g, [kind |-> "thrown", code |-> "ERR_BAD_RESPONSE",
                             hasResponse |-> TRUE, status |-> raw.status,
                             body |-> raw.body])

\* the body of the try block after `await axios.get(...)` has settled
HealthSettle(h, raw) ==
    LET settled == AxiosSettle(raw)
        g == [h EXCEPT !.seen = Append(@, raw)]
    IN  IF settled.kind = "response"
        THEN IF BodyIsOk(settled)
             THEN [g EXCEPT !.pc = "done", !.result = [success |-> TRUE, url |-> h.url]]
             ELSE HealthLoop([g EXCEPT !.i = @ + 1])
        ELSE HealthCatch(g, settled)

\* the backoff timer fires: `continue` or the end of the loop body, then i++
HealthResume(h) == HealthLoop([h EXCEPT !.i = @ + 1])

HealthRunning(h) == h.pc \in {"get", "sleep"}

\* one step of a running call, given the outcome the network chooses
HealthStep(h, raw) ==
    IF h.pc = "get" THEN HealthSettle(h, raw) ELSE HealthResume(h)

(***************************************************************************)
(* getApiUrl, detectApiUrl and getApiUrlWithFallback.                      *)
(***************************************************************************)
possibleUrls ==
    << <<"https:", "/", "/", "filebackend-production.up.railway.app">>,
       <<"https:", "/", "/", "filebackend-production-b095.up.railway.app">> >>

\* coarse classes of probe outcomes used where one call makes many probes
ProbeOutcomes ==
    { [kind |-> "http", status |-> 200, body |-> "ok"],
      [kind |-> "http", status |-> 404, body |-> "other"],
      [kind |-> "http", status |-> 500, body |-> "ok"],
      [kind |-> "neterr", code |-> "ERR_NAME_NOT_RESOLVED"],
      [kind |-> "neterr", code |-> "OTHER"] }

\* mutant: the configured URL is not trimmed before the slashes are stripped
getApiUrlPlainNoTrim(env) ==
    IF Truthy(env) /\ Truthy(trim(env))
    THEN StripTrailingSlashes(env)
    ELSE localUrl

\* part_000: trim, then strip the trailing slashes, else the local default
getApiUrlPlain(env) ==
    IF Truthy(env) /\ Truthy(trim(env))
    THEN StripTrailingSlashes(trim(env))
    ELSE localUrl

\* part_001: the configured URL as it is; null asks for auto-detection
getApiUrlDetect(env, production) ==
    IF ~Truthy(env) \/ env = localUrl
    THEN IF production THEN Null ELSE localUrl
    ELSE env

IdleHealth ==
    [variant |-> "plain", url |-> Null, retries |-> 0, i |-> 0, pc |-> "idle",
     probes |-> 0, target |-> Null, seen |-> <<>>, delays |-> <<>>, result |-> NoResult]

IdleResolve ==
    [pc |-> "idle", apiUrl |-> Null, k |-> 0, hf |-> IdleHealth, log |-> <<>>,
     probes |-> 0, targets |-> {}, hit |-> FALSE, result |-> Null]

\* cachedApiUrl = apiUrl; apiUrlChecked = true; return apiUrl
\* (the two writes are applied by the action that runs this step)
ResolveFinish(r, url) ==
    [r EXCEPT !.pc = "done", !.result = url, !.apiUrl = url, !.hf = IdleHealth]

\* start one checkApiHealth call inside a resolution
ResolveProbe(r, stage, url, retries) ==
    LET h == HealthCall("detect", url, retries)
    IN  [r EXCEPT !.pc = stage, !.hf = h, !.probes = @ + 1,
                  !.targets = @ \cup {h.target}]

\* mutant: every candidate is probed up to three times
DetectCandidatesThree(r, env, k) ==
    IF k <= Len(possibleUrls)
    THEN ResolveProbe([r EXCEPT !.k = k], "detectCand", possibleUrls[k], 3)
    ELSE ResolveFinish(r, IF Truthy(env) THEN env ELSE localUrl)

\* the candidate loop of detectApiUrl from index k on; after it, the fallback
\* `import.meta.env.VITE_API_URL || 'http://localhost:5000'`
DetectCandidates(r, env, k) ==
    IF k <= Len(possibleUrls)
    THEN ResolveProbe([r EXCEPT !.k = k], "detectCand", possibleUrls[k], 2)
    ELSE ResolveFinish(r, IF Truthy(env) THEN env ELSE localUrl)

\* detectApiUrl: the configured URL first, then the candidates
DetectStart(r, env) ==
    IF Truthy(env)
    THEN ResolveProbe(r, "detectEnv", env, 2)
    ELSE DetectCandidates(r, env, 1)

\* the call: runs synchronously to its first await
ResolveCall(variant, env, production, cached, checked) ==
    IF Truthy(cached) /\ checked
    THEN [ResolveFinish(IdleResolve, cached) EXCEPT !.hit = TRUE]
    ELSE IF variant = "plain"
    THEN ResolveFinish(IdleResolve, getApiUrlPlain(env))
    ELSE LET a == getApiUrlDetect(env, production)
         IN  IF a = Null
             THEN DetectStart(IdleResolve, env)
             ELSE ResolveProbe([IdleResolve EXCEPT !.apiUrl = a], "health1", a, 1)

\* a checkApiHealth call of the resolution has returned
ResolveAfterHealth(r, env, h) ==
    LET ok == h.result.success
        g == [r EXCEPT !.log = Append(@, <<h.url, ok>>), !.hf = IdleHealth]
    IN  CASE r.pc = "health1" ->
                IF ok THEN ResolveFinish(g, r.apiUrl) ELSE DetectStart(g, env)
          [] r.pc = "detectEnv" ->
                IF ok THEN ResolveFinish(g, env) ELSE DetectCandidates(g, env, 1)
          [] r.pc = "detectCand" ->
                IF ok THEN ResolveFinish(g, possibleUrls[r.k])
                ELSE DetectCandidates(g, env, r.k + 1)

ResolveRunning(r) == r.pc \in {"health1", "detectEnv", "detectCand"}

\* one step of a running resolution: a probe settles or a backoff timer fires
ResolveStep(r, env, raw) ==
    LET h == HealthStep(r.hf, raw)
        more == IF h.probes > r.hf.probes THEN 1 ELSE 0
    IN  IF HealthRunning(h)
        THEN [r EXCEPT !.hf = h, !.probes = @ + more, !.targets = @ \cup {h.target}]
        ELSE ResolveAfterHealth(r, env, h)

(***************************************************************************)
(* wakeUpServer(apiUrl).  Frame fields: attempt is the loop counter, pc    *)
(* the await the call is suspended at ("resolve": getApiUrlWithFallback,   *)
(* "get": axios.get, "sleep": a timer), timeouts the timeout of each probe,*)
(* delays the timers started, elapsed the time spent when every probe      *)
(* takes its full timeout.                                                 *)
(***************************************************************************)
maxRetries == 3
wakeFirstTimeoutMs == 5000
wakeLaterTimeoutMs == 15000
wakeBackoffMs == 2000

IdleWake ==
    [pc |-> "idle", url |-> Null, given |-> FALSE, attempt |-> 0, probes |-> 0,
     target |-> Null, timeouts |-> <<>>, delays |-> <<>>, seen |-> <<>>,
     elapsed |-> 0, result |-> FALSE]

\* const timeout = attempt === 1 ? 5000 : 15000
wakeTimeout(attempt) == IF attempt = 1 THEN wakeFirstTimeoutMs ELSE wakeLaterTimeoutMs

\* loop head `for (...; attempt <= maxRetries; ...)`
WakeLoop(w) ==
    IF w.attempt <= maxRetries
    THEN [w EXCEPT !.pc = "get", !.probes = @ + 1,
                   !.target = w.url \o healthPath,
                   !.timeouts = Append(@, wakeTimeout(w.attempt)),
                   !.elapsed = @ + wakeTimeout(w.attempt)]
    ELSE [w EXCEPT !.pc = "done", !.result = FALSE]

\* mutant: the sleep does not grow with the attempt number
WakeSleepFlat(w) ==
    [w EXCEPT !.pc = "sleep", !.delays = Append(@, wakeBackoffMs),
              !.elapsed = @ + wakeBackoffMs]

\* await new Promise(resolve => setTimeout(resolve, 2000 * attempt))
WakeSleep(w) ==
    [w EXCEPT !.pc = "sleep", !.delays = Append(@, wakeBackoffMs * w.attempt),
              !.elapsed = @ + wakeBackoffMs * w.attempt]

\* the end of the loop body: `if (attempt < maxRetries) await ...`, then attempt++
WakeBottom(w) ==
    IF w.attempt < maxRetries
    THEN WakeSleep(w)
    ELSE WakeLoop([w EXCEPT !.attempt = @ + 1])

\* mutant: the DNS and timeout branches lack `continue`, so the sleep at the
\* end of the loop body follows their own
WakeCatchNoContinue(w, err) ==
    LET isLastAttempt == (w.attempt = maxRetries)
        failed == [w EXCEPT !.pc = "done", !.result = FALSE]
    IN  IF err.code \in {"ERR_NAME_NOT_RESOLVED", "ECONNABORTED", "ETIMEDOUT"}
        THEN IF isLastAttempt THEN failed
             ELSE [WakeSleep(w) EXCEPT !.delays = Append(@, wakeBackoffMs * w.attempt),
                                       !.elapsed = @ + wakeBackoffMs * w.attempt]
        ELSE IF isLastAttempt THEN failed ELSE WakeBottom(w)

\* mutant: an unclassified error ends the wake-up at once
WakeCatchGivesUp(w, err) ==
    LET isLastAttempt == (w.attempt = maxRetries)
        failed == [w EXCEPT !.pc = "done", !.result = FALSE]
    IN  IF err.code \in {"ERR_NAME_NOT_RESOLVED", "ECONNABORTED", "ETIMEDOUT"}
        THEN IF isLastAttempt THEN failed ELSE WakeSleep(w)
        ELSE failed

\* the catch block
WakeCatch(w, err) ==
    LET isLastAttempt == (w.attempt = maxRetries)
        failed == [w EXCEPT !.pc = "done", !.result = FALSE]
    IN  IF err.code = "ERR_NAME_NOT_RESOLVED"
        THEN IF isLastAttempt THEN failed ELSE WakeSleep(w)
        ELSE IF err.code \in {"ECONNABORTED", "ETIMEDOUT"}
        THEN IF isLastAttempt THEN failed ELSE WakeSleep(w)
        ELSE IF isLastAttempt THEN failed ELSE WakeBottom(w)

\* mutant: any response counts as awake
WakeSettleAnyResponse(w, raw) ==
    LET settled == AxiosSettle(raw)
        g == [w EXCEPT !.seen = Append(@, raw)]
    IN  IF settled.kind = "response"
        THEN [g EXCEPT !.pc = "done", !.result = TRUE]
        ELSE WakeCatch(g, settled)

\* the try block after `await axios.get(...)` has settled
WakeSettle(w, raw) ==
    LET settled == AxiosSettle(raw)
        g == [w EXCEPT !.seen = Append(@, raw)]
    IN  IF settled.kind = "response"
        THEN IF BodyIsOk(settled)
             THEN [g EXCEPT !.pc = "done", !.result = TRUE]
             ELSE WakeBottom(g)
        ELSE WakeCatch(g, settled)

\* a timer fires: `continue` or the end of the loop body, then attempt++
WakeResume(w) == WakeLoop([w EXCEPT !.attempt = @ + 1])

\* the call with a URL: runs synchronously to the first probe
WakeCall(url) ==
    WakeLoop([IdleWake EXCEPT !.url = url, !.given = TRUE, !.attempt = 1])

\* the call without a URL: `apiUrl = await getApiUrlWithFallback()`
WakeCallNoUrl == [IdleWake EXCEPT !.pc = "resolve"]

\* getApiUrlWithFallback has returned to a call made without a URL
WakeResolved(w, url) == WakeLoop([w EXCEPT !.url = url, !.attempt = 1])

WakeRunning(w) == w.pc \in {"get", "sleep"}

WakeStep(w, raw) ==
    IF w.pc = "get" THEN WakeSettle(w, raw) ELSE WakeResume(w)

(***************************************************************************)
(* The client: getApiInstance, createApiInstance with its interceptors, and*)
(* one api method call per task.  A world is the module-level state the     *)
(* calls share; every operator below runs one stretch of code of task t     *)
(* from a resumption to the next await and gives the world it leaves.       *)
(*   task.pc: "idle"; "ready" (await getApiInstance(), instance cached);    *)
(*   "creating" (createApiInstance awaits getApiUrlWithFallback);           *)
(*   "request" (the HTTP request is in flight); "retryResolve", "waking",   *)
(*   "refreshing" (response interceptor awaits getApiUrlWithFallback,       *)
(*   wakeUpServer, getApiUrlWithFallback after invalidation);               *)
(*   "resolved" / "rejected" (the api method's promise has settled).        *)
(***************************************************************************)
NumTasks == 2        \* api method calls made by the pages
Tasks == 1..NumTasks

\* outcomes of an api request (the instance keeps axios' default
\* validateStatus): a 2xx reply, a 4xx and a 5xx reply, failures without a reply
ReqOutcomes ==
    { [kind |-> "http", status |-> 200, body |-> "other"],
      [kind |-> "http", status |-> 404, body |-> "other"],
      [kind |-> "http", status |-> 500, body |-> "none"],
      [kind |-> "neterr", code |-> "ERR_NETWORK"],
      [kind |-> "neterr", code |-> "ERR_NAME_NOT_RESOLVED"],
      [kind |-> "neterr", code |-> "ECONNABORTED"] }

\* axios' default validateStatus: status >= 200 && status < 300
RequestSettle(raw) ==
    IF raw.kind = "http"
    THEN IF raw.status >= 200 /\ raw.status < 300
         THEN [kind |-> "response", status |-> raw.status, body |-> raw.body]
         ELSE [kind |-> "thrown", code |-> "ERR_BAD_RESPONSE", hasResponse |-> TRUE,
               status |-> raw.status, body |-> raw.body]
    ELSE [kind |-> "thrown", code |-> raw.code, hasResponse |-> FALSE,
          status |-> 0, body |-> "none"]

NoError == [kind |-> "none"]

\* no request of the call has settled yet
NoReply == [kind |-> "pending"]

\* how many times createApiInstance was called
createCalls(ts) == Cardinality({t \in DOMAIN ts : ts[t].creator})

IdleTask ==
    [pc |-> "idle", inst |-> 0, baseURL |-> Null, retry |-> FALSE, apiUrl |-> Null,
     rs |-> IdleResolve, wk |-> IdleWake, err |-> NoError,
     creator |-> FALSE, wakeSeqs |-> 0, reissues |-> 0, reply |-> NoReply]

\* frames inside a task keep no history of outcomes and timers
ForgetHealth(h) ==
    [h EXCEPT !.seen = <<>>, !.delays = <<>>, !.target = Null, !.probes = 0]
ForgetResolve(r) ==
    [r EXCEPT !.hf = ForgetHealth(@), !.log = <<>>, !.targets = {}, !.probes = 0]
ForgetWake(w) == [w EXCEPT !.seen = <<>>, !.delays = <<>>, !.timeouts = <<>>, !.elapsed = 0]

\* a backoff timer touches nothing the calls share: inside the client a
\* timer fires with the step that starts it
ResolveThroughTimer(r, env, raw) ==
    LET q == ResolveStep(r, env, raw)
    IN  IF ResolveRunning(q) /\ q.hf.pc = "sleep" THEN ResolveStep(q, env, raw) ELSE q

WakeThroughTimer(k, raw) ==
    LET q == WakeStep(k, raw)
    IN  IF q.pc = "sleep" THEN WakeResume(q) ELSE q

\* the outcome is a failure to reach the server at all
Down(raw) == raw.kind = "neterr" /\ raw.code \in {"ERR_NETWORK", "ERR_NAME_NOT_RESOLVED"}

\* the request interceptor: the baseURL put on an outgoing request
requestBaseUrl(v, cached, default) ==
    IF Truthy(cached)
    THEN IF v = "plain" THEN StripTrailingSlashes(cached) ELSE cached
    ELSE default

\* instance.request(config): request interceptor, then the request goes out
SendRequest(w, t) ==
    LET base == requestBaseUrl(w.variant, w.cached, w.tasks[t].baseURL)
    IN  [w EXCEPT !.tasks[t].pc = "request", !.tasks[t].baseURL = base]

\* an api method after `await getApiInstance()`: instance.get(path) on the
\* instance it was handed, whose default baseURL is base
CallInstance(w, t, inst, base) ==
    SendRequest([w EXCEPT !.tasks[t].inst = inst,
                          !.tasks[t].baseURL = base,
                          !.tasks[t].retry = FALSE], t)

\* createApiInstance after `await getApiUrlWithFallback()`: axios.create, the
\* interceptors are installed; getApiInstance stores the instance and returns
\* it; the api method sends its request through it
AssignInstance(w, t, apiUrl) ==
    LET base == IF w.variant = "plain" /\ Truthy(apiUrl)
                THEN StripTrailingSlashes(apiUrl) ELSE apiUrl
    IN  CallInstance([w EXCEPT !.apiInstance = t, !.instanceBase = base], t, t, base)

\* a getApiUrlWithFallback call of the client has returned: the cache is
\* written unless the value came from it
ResolveReturns(w, r) ==
    LET u == [w EXCEPT !.memo = IF @ = Null THEN r.result ELSE @]
    IN  IF r.hit THEN u ELSE [u EXCEPT !.cached = r.result, !.checked = TRUE]

\* a getApiUrlWithFallback call made by a task: runs to its first probe
ClientResolveCall(w) ==
    ResolveCall(w.variant, w.env, w.production, w.cached, w.checked)

\* the locals of a call are gone once its promise has settled
Settled(task, pc, err) ==
    [task EXCEPT !.pc = pc, !.err = err, !.baseURL = Null, !.apiUrl = Null,
                 !.rs = IdleResolve]

\* Promise.reject(error) out of the response interceptor
Reject(w, t, err) == [w EXCEPT !.tasks[t] = Settled(@, "rejected", err)]

\* the response goes to the caller of the api method
Return(w, t) == [w EXCEPT !.tasks[t] = Settled(@, "resolved", NoError)]

\* const woke = await wakeUpServer(apiUrl): the call runs to its first probe
StartWake(w, t, apiUrl) ==
    [w EXCEPT !.tasks[t].pc = "waking",
              !.tasks[t].apiUrl = apiUrl,
              !.tasks[t].wk = ForgetWake(WakeCall(apiUrl)),
              !.tasks[t].rs = IdleResolve,
              !.tasks[t].wakeSeqs = @ + 1]

\* mutant: the retry marker is not consulted
InterceptAlways(w, t, err) ==
    IF w.variant = "detect" /\ err.code \in {"ERR_NETWORK", "ERR_NAME_NOT_RESOLVED"}
    THEN LET r == ClientResolveCall(w)
             u == [w EXCEPT !.tasks[t].retry = TRUE, !.tasks[t].err = err]
         IN  IF r.pc = "done"
             THEN StartWake(ResolveReturns(u, r), t, r.result)
             ELSE [u EXCEPT !.tasks[t].pc = "retryResolve", !.tasks[t].rs = ForgetResolve(r)]
    ELSE Reject(w, t, err)

\* mutant: a failure of the re-issued request is reported as the first one
InterceptFirstError(w, t, err) ==
    IF /\ w.variant = "detect"
       /\ err.code \in {"ERR_NETWORK", "ERR_NAME_NOT_RESOLVED"}
       /\ ~w.tasks[t].retry
    THEN LET r == ClientResolveCall(w)
             u == [w EXCEPT !.tasks[t].retry = TRUE, !.tasks[t].err = err]
         IN  IF r.pc = "done"
             THEN StartWake(ResolveReturns(u, r), t, r.result)
             ELSE [u EXCEPT !.tasks[t].pc = "retryResolve", !.tasks[t].rs = ForgetResolve(r)]
    ELSE Reject(w, t, IF w.tasks[t].retry THEN w.tasks[t].err ELSE err)

\* mutant: every failed request starts the retry cycle
InterceptAnyError(w, t, err) ==
    IF w.variant = "detect" /\ ~w.tasks[t].retry
    THEN LET r == ClientResolveCall(w)
             u == [w EXCEPT !.tasks[t].retry = TRUE, !.tasks[t].err = err]
         IN  IF r.pc = "done"
             THEN StartWake(ResolveReturns(u, r), t, r.result)
             ELSE [u EXCEPT !.tasks[t].pc = "retryResolve", !.tasks[t].rs = ForgetResolve(r)]
    ELSE Reject(w, t, err)

\* mutant: no retry cycle is started while another call is in one
InterceptSingleFlight(w, t, err) ==
    IF /\ w.variant = "detect"
       /\ err.code \in {"ERR_NETWORK", "ERR_NAME_NOT_RESOLVED"}
       /\ ~w.tasks[t].retry
       /\ \A s \in DOMAIN w.tasks :
              w.tasks[s].pc \notin {"retryResolve", "waking", "refreshing"}
    THEN LET r == ClientResolveCall(w)
             u == [w EXCEPT !.tasks[t].retry = TRUE, !.tasks[t].err = err]
         IN  IF r.pc = "done"
             THEN StartWake(ResolveReturns(u, r), t, r.result)
             ELSE [u EXCEPT !.tasks[t].pc = "retryResolve", !.tasks[t].rs = ForgetResolve(r)]
    ELSE Reject(w, t, err)

\* the response interceptor's error handler
Intercept(w, t, err) ==
    IF /\ w.variant = "detect"
       /\ err.code \in {"ERR_NETWORK", "ERR_NAME_NOT_RESOLVED"}
       /\ ~w.tasks[t].retry
    THEN LET r == ClientResolveCall(w)
             u == [w EXCEPT !.tasks[t].retry = TRUE, !.tasks[t].err = err]
         IN  IF r.pc = "done"
             THEN StartWake(ResolveReturns(u, r), t, r.result)
             ELSE [u EXCEPT !.tasks[t].pc = "retryResolve", !.tasks[t].rs = ForgetResolve(r)]
    ELSE Reject(w, t, err)

\* the request of task t has settled
RequestSettles(w, t, raw) ==
    LET settled == RequestSettle(raw)
        u == [w EXCEPT !.tasks[t].reply = raw]
    IN  IF settled.kind = "response"
        THEN Return(u, t)
        ELSE Intercept(u, t, settled)

\* the interceptor re-issues the request: return instance(originalRequest)
Reissue(w, t, base) ==
    SendRequest([w EXCEPT !.tasks[t].baseURL = base, !.tasks[t].reissues = @ + 1], t)

\* mutant: the invalidation clears the URL and leaves the flag
AfterWakeKeepsChecked(w, t) ==
    IF w.tasks[t].wk.result
    THEN Reissue([w EXCEPT !.tasks[t].wk = [IdleWake EXCEPT !.result = TRUE]],
                 t, w.tasks[t].apiUrl)
    ELSE LET u == [w EXCEPT !.cached = Null, !.memo = Null, !.tasks[t].wk = IdleWake]
             r == ClientResolveCall(u)
         IN  [u EXCEPT !.tasks[t].pc = "refreshing", !.tasks[t].rs = ForgetResolve(r)]

\* wakeUpServer has returned to the interceptor; of its frame the record
\* that the wake-up succeeded stays
AfterWake(w, t) ==
    IF w.tasks[t].wk.result
    THEN Reissue([w EXCEPT !.tasks[t].wk = [IdleWake EXCEPT !.result = TRUE]],
                 t, w.tasks[t].apiUrl)
    ELSE LET u == [w EXCEPT !.cached = Null, !.checked = FALSE, !.memo = Null,
                            !.tasks[t].wk = IdleWake]
             r == ClientResolveCall(u)
         IN  [u EXCEPT !.tasks[t].pc = "refreshing", !.tasks[t].rs = ForgetResolve(r)]

\* mutant: the request is sent again whatever the new resolution returned
AfterRefreshAlways(w, t, newApiUrl) == Reissue(w, t, newApiUrl)

\* getApiUrlWithFallback has returned to the interceptor after the invalidation
AfterRefresh(w, t, newApiUrl) ==
    IF newApiUrl # w.tasks[t].apiUrl
    THEN Reissue(w, t, newApiUrl)
    ELSE Reject(w, t, w.tasks[t].err)

\* mutant: the resolution made after the invalidation does not write the cache
AfterResolveNoRefreshWrite(w, t, r) ==
    LET v == [w EXCEPT !.tasks[t].rs = IdleResolve]
        u == ResolveReturns(v, r)
    IN  CASE w.tasks[t].pc = "creating" -> AssignInstance(u, t, r.result)
          [] w.tasks[t].pc = "retryResolve" -> StartWake(u, t, r.result)
          [] w.tasks[t].pc = "refreshing" -> AfterRefresh(v, t, r.result)

\* the resolution task t awaits has returned
AfterResolve(w, t, r) ==
    LET u == ResolveReturns([w EXCEPT !.tasks[t].rs = IdleResolve], r)
    IN  CASE w.tasks[t].pc = "creating" -> AssignInstance(u, t, r.result)
          [] w.tasks[t].pc = "retryResolve" -> StartWake(u, t, r.result)
          [] w.tasks[t].pc = "refreshing" -> AfterRefresh(u, t, r.result)

\* a probe or a timer of the resolution task t awaits
ResolveAdvances(w, t, raw) ==
    LET r == ResolveThroughTimer(w.tasks[t].rs, w.env, raw)
    IN  IF r.pc = "done"
        THEN AfterResolve(w, t, r)
        ELSE [w EXCEPT !.tasks[t].rs = ForgetResolve(r)]

\* a probe or a timer of the wake-up task t awaits
WakeAdvances(w, t, raw) ==
    LET k == WakeThroughTimer(w.tasks[t].wk, raw)
        u == [w EXCEPT !.tasks[t].wk = ForgetWake(k)]
    IN  IF k.pc = "done" THEN AfterWake(u, t) ELSE u

\* an api method is called: getApiInstance runs to its first await
StartCall(w, t) ==
    IF w.apiInstance # 0
    THEN [w EXCEPT !.tasks[t].pc = "ready", !.tasks[t].inst = w.apiInstance,
                   !.tasks[t].baseURL = w.instanceBase]
    ELSE LET r == ClientResolveCall(w)
             u == [w EXCEPT !.tasks[t].creator = TRUE,
                            !.tasks[t].pc = "creating",
                            !.tasks[t].rs = ForgetResolve(r)]
         IN  IF r.pc = "done" THEN ResolveReturns(u, r) ELSE u

\* the continuation of a call suspended at an await that was already settled
Continue(w, t) ==
    IF w.tasks[t].pc = "ready"
    THEN CallInstance(w, t, w.tasks[t].inst, w.tasks[t].baseURL)
    ELSE AssignInstance([w EXCEPT !.tasks[t].rs = IdleResolve], t, w.tasks[t].rs.result)

\* task t is suspended at an await whose promise is already settled
MicrotaskPending(task) ==
    \/ task.pc = "ready"
    \/ task.pc = "creating" /\ task.rs.pc = "done"

(***************************************************************************)
(* The response interceptor's error handler on whole error objects: code,  *)
(* message, response, and the userMessage it attaches.  What it awaits     *)
(* (getApiUrlWithFallback, wakeUpServer) is the handler's environment here: *)
(* a call returns a value or throws.  Handler frame: pc is "idle",          *)
(* "resolve", "wake", "refresh" (the three awaits of the retry cycle),      *)
(* "reissued" (instance(originalRequest) is in flight), "resolved" or       *)
(* "rejected".                                                              *)
(***************************************************************************)
Undefined == "undefined"

plainConnectivityMessage == "Cannot connect to server. Please check your connection and try again."
plainTimeoutMessage == "Upload timeout: The server is taking too long to respond. This may happen if the service is waking up. Please try again."
detectConnectivityMessage == "Cannot connect to server. The server may be sleeping or unavailable. Please try again in a moment."
retryErrorMessage == "Unable to connect to server. The server may be sleeping or unavailable. Please try again in a moment."
genericMessage == "An unexpected error occurred"

\* error.code of a failed request
RequestErrorCodes ==
    {"ERR_NETWORK", "ERR_NAME_NOT_RESOLVED", "ECONNABORTED", "ERR_BAD_RESPONSE", "ERR_CANCELED"}

\* error.message: none, axios' timeout message, another message
ErrorMessages == {"", "timeout of 30000ms exceeded", "Request aborted"}

\* error.message.includes('timeout')
IncludesTimeout(message) == message = "timeout of 30000ms exceeded"

\* error.response: absent, or a reply whose body has a message or has none
NoResponse == [present |-> FALSE, status |-> 0, dataMessage |-> Undefined]

ErrorResponses ==
    {NoResponse} \cup
    { [present |-> TRUE, status |-> s, dataMessage |-> m] :
          s \in {404, 500}, m \in {Undefined, "No file uploaded"} }

RequestErrors ==
    { [code |-> c, message |-> m, response |-> r] :
          c \in RequestErrorCodes, m \in ErrorMessages, r \in ErrorResponses }

\* JavaScript a || b on strings and undefined
JsOr(a, b) == IF a \in {Undefined, ""} THEN b ELSE a

NetworkCode(error) == error.code \in {"ERR_NETWORK", "ERR_NAME_NOT_RESOLVED"}

\* part_000: the userMessage the interceptor attaches
plainUserMessage(error) ==
    IF NetworkCode(error) THEN plainConnectivityMessage
    ELSE IF error.code = "ECONNABORTED" /\ IncludesTimeout(error.message)
         THEN plainTimeoutMessage
    ELSE IF error.response.present
         THEN JsOr(error.response.dataMessage, error.message)
    ELSE JsOr(error.message, genericMessage)

\* part_001: the userMessage the interceptor attaches
detectUserMessage(error) ==
    IF NetworkCode(error) THEN detectConnectivityMessage
    ELSE IF error.response.present
         THEN JsOr(error.response.dataMessage, error.message)
    ELSE JsOr(error.message, genericMessage)

userMessage(v, error) ==
    IF v = "plain" THEN plainUserMessage(error) ELSE detectUserMessage(error)

NoRejection == [kind |-> "none"]

\* error.userMessage = ...; return Promise.reject(error)
Annotated(v, error) ==
    [kind |-> "error", code |-> error.code, message |-> error.message,
     response |-> error.response, userMessage |-> userMessage(v, error),
     isRetryError |-> FALSE]

\* Promise.reject({...retryError, message: '...', isRetryError: true}): the
\* spread of a thrown Error copies no property of it
RetryRejection ==
    [kind |-> "error", code |-> Undefined, message |-> retryErrorMessage,
     response |-> NoResponse, userMessage |-> Undefined, isRetryError |-> TRUE]

IdleHandler ==
    [pc |-> "idle", variant |-> "plain", error |-> NoRejection, retry |-> FALSE,
     apiUrl |-> Null, wakes |-> 0, reissues |-> 0, invalidated |-> FALSE,
     path |-> "none", rejection |-> NoRejection]

\* the enhanced error message and Promise.reject(error)
HandlerRejects(h, path) ==
    [h EXCEPT !.pc = "rejected", !.path = path,
              !.rejection = Annotated(h.variant, h.error)]

\* the handler is called with the error of a request whose descriptor
\* carries _retry = retry
HandlerCall(v, error, retry, path) ==
    LET h == [IdleHandler EXCEPT !.variant = v, !.error = error, !.retry = retry]
    IN  IF v = "detect" /\ NetworkCode(error) /\ ~retry
        THEN [h EXCEPT !.pc = "resolve", !.retry = TRUE]
        ELSE HandlerRejects(h, path)

\* const apiUrl = await getApiUrlWithFallback() has returned
HandlerResolved(h, url) ==
    [h EXCEPT !.pc = "wake", !.apiUrl = url, !.wakes = @ + 1]

\* return instance(originalRequest)
HandlerReissues(h, url) ==
    [h EXCEPT !.pc = "reissued", !.apiUrl = url, !.reissues = @ + 1]

\* const woke = await wakeUpServer(apiUrl) has returned
HandlerWoke(h, woke) ==
    IF woke THEN HandlerReissues(h, h.apiUrl)
    ELSE [h EXCEPT !.pc = "refresh", !.invalidated = TRUE]

\* const newApiUrl = await getApiUrlWithFallback() has returned
HandlerRefreshed(h, newApiUrl) ==
    IF newApiUrl # h.apiUrl THEN HandlerReissues(h, newApiUrl)
    ELSE HandlerRejects(h, "direct")

\* catch (retryError)
HandlerCatches(h) ==
    [h EXCEPT !.pc = "rejected", !.path = "catch", !.rejection = RetryRejection]

\* the re-issued request has failed: its error comes to the handler with
\* _retry set, and the handler's rejection is the caller's
HandlerReissueFails(h, error) ==
    LET n == HandlerCall(h.variant, error, TRUE, "reissue")
    IN  [n EXCEPT !.apiUrl = h.apiUrl, !.wakes = h.wakes, !.reissues = h.reissues,
                  !.invalidated = h.invalidated]

\* the re-issued request has succeeded
HandlerReissueSucceeds(h) == [h EXCEPT !.pc = "resolved"]

(***************************************************************************)
(* The Upload page (pages/Upload.jsx).  p is the component's state:        *)
(* serverStatus, errorMessage, uploading, uploadComplete, uploadProgress,  *)
(* files (the names of the selected files); mount is the mount-time        *)
(* checkServer effect ("pending", "done"); h is the frame of handleUpload: *)
(* pc "idle", "preflight" (await api.healthCheck()), "upload" (await       *)
(* api.upload of file i), "ended"; sent lists the files an upload request  *)
(* was sent for in the current run, reply is what the last of them gave,   *)
(* caught is the error the catch block got, runs counts the runs of        *)
(* handleUpload, alerts the alert() calls.                                 *)
(***************************************************************************)
MaxFiles == 2        \* files selected at once
MaxRuns == 2         \* clicks on the upload button

FileNames == {"report.pdf", "timeout.log"}

FileLists == UNION {[1..n -> FileNames] : n \in 1..MaxFiles}

mountOfflineMessage == "Server is not available. Please check your connection and try again."
pageTimeoutMessage == "Upload timeout: The server took too long to respond. This may happen if the Railway service is waking up from sleep. Please wait a moment and try again."
unknownErrorMessage == "Unknown error occurred"

\* throw new Error(`Failed to upload ${files[i].name}`)
UploadFailedError(name) ==
    [kind |-> "error", code |-> Undefined, message |-> "Failed to upload " \o name,
     response |-> NoResponse, userMessage |-> Undefined, isRetryError |-> FALSE]

\* message.includes('timeout') for the messages of the page's errors
MessageIncludesTimeout(message) ==
    message \in {"timeout of 30000ms exceeded", "Failed to upload timeout.log"}

\* errors as axios builds them for a request: always a message, a response
\* exactly when the status was refused
AxiosErrors ==
    {error \in RequestErrors :
        /\ error.message # ""
        /\ error.response.present <=> error.code = "ERR_BAD_RESPONSE"
        /\ error.response.status # 404}

\* the errors api.upload is rejected with: what the interceptor of either
\* variant rejects
UploadRejections ==
    {Annotated(v, error) : v \in Variants, error \in AxiosErrors} \cup {RetryRejection}

\* what `await api.upload(...)` gives: a 2xx response whose body has
\* success true or false, or a rejection
UploadOutcomes ==
    {[kind |-> "response", success |-> b] : b \in BOOLEAN} \cup UploadRejections

IdleUpload == [pc |-> "idle", files |-> <<>>, i |-> 0]

\* the component as mounted: useState initial values, checkServer started
PageMounted ==
    [serverStatus |-> "checking", errorMessage |-> "", uploading |-> FALSE,
     uploadComplete |-> FALSE, uploadProgress |-> 0, files |-> <<>>,
     mount |-> "pending", h |-> IdleUpload, sent |-> <<>>, reply |-> NoReply,
     caught |-> NoRejection,
     runs |-> 0, alerts |-> 0, navigated |-> FALSE]

\* the upload button's disabled attribute
ButtonDisabled(p) ==
    Len(p.files) = 0 \/ p.uploading \/ p.serverStatus = "offline"

\* checkServer after `await api.healthCheck()`
CheckServerReturns(p, success) ==
    IF success
    THEN [p EXCEPT !.mount = "done", !.serverStatus = "online", !.errorMessage = ""]
    ELSE [p EXCEPT !.mount = "done", !.serverStatus = "offline",
                   !.errorMessage = mountOfflineMessage]

\* handleFileSelect / handleDrop with a non-empty list
handleFileSelect(p, selected) ==
    [p EXCEPT !.files = selected, !.uploadProgress = 0, !.uploadComplete = FALSE]

\* handleUpload up to its first await
handleUpload(p) ==
    IF Len(p.files) = 0 THEN p
    ELSE IF p.serverStatus = "offline" THEN [p EXCEPT !.alerts = @ + 1]
    ELSE [p EXCEPT !.uploading = TRUE, !.uploadProgress = 0, !.errorMessage = "",
                   !.h = [pc |-> "preflight", files |-> p.files, i |-> 0],
                   !.sent = <<>>, !.reply = NoReply, !.caught = NoRejection,
                   !.runs = @ + 1]

\* the catch block of handleUpload
UploadCatch(p, error) ==
    LET errorMsg == JsOr(error.userMessage, JsOr(error.message, unknownErrorMessage))
        shown == IF error.code = "ECONNABORTED" \/ MessageIncludesTimeout(error.message)
                 THEN pageTimeoutMessage ELSE errorMsg
    IN  [p EXCEPT !.errorMessage = shown, !.alerts = @ + 1, !.uploading = FALSE,
                  !.caught = error, !.h = [@ EXCEPT !.pc = "idle"]]

\* the loop head `for (let i = 0; i < files.length; i++)` and what follows it
UploadLoop(p, i) ==
    IF i <= Len(p.h.files)
    THEN [p EXCEPT !.h = [@ EXCEPT !.pc = "upload", !.i = i], !.sent = Append(@, i)]
    ELSE [p EXCEPT !.uploadComplete = TRUE, !.uploadProgress = 100,
                   !.h = [@ EXCEPT !.pc = "ended"]]

\* the pre-flight health check has returned: its result is not looked at
PreflightReturns(p) == UploadLoop(p, 1)

\* mutant: a success:false body is not looked at
UploadRepliedIgnoresFlag(p, outcome) ==
    LET q == [p EXCEPT !.reply = outcome]
    IN  IF outcome.kind = "response"
        THEN UploadLoop(q, p.h.i + 1)
        ELSE UploadCatch(q, outcome)

\* `await api.upload(...)` has settled
UploadReplied(p, outcome) ==
    LET q == [p EXCEPT !.reply = outcome]
    IN  IF outcome.kind = "response"
        THEN IF ~outcome.success
             THEN UploadCatch(q, UploadFailedError(p.h.files[p.h.i]))
             ELSE UploadLoop(q, p.h.i + 1)
        ELSE UploadCatch(q, outcome)

(***************************************************************************)
(* State.                                                                   *)
(***************************************************************************)
VARIABLES
    variant,         \* which client module is loaded: "plain" or "detect"
    envUrl,          \* import.meta.env.VITE_API_URL
    isProduction,    \* window.location.hostname !== 'localhost'
    backend,         \* "down": the server is never reached; "any": no constraint
    cachedApiUrl,    \* module-level cache of the resolved URL
    apiUrlChecked,   \* module-level flag: a resolution has completed
    hc,              \* the frame of one checkApiHealth call
    rs,              \* the frame of one getApiUrlWithFallback call
    wk,              \* the frame of one wakeUpServer call
    apiInstance,     \* module-level cache of the client: 0 (null), or the
                     \* instance named by the task whose call created it
    apiInstanceBase, \* the default baseURL of that instance
    tasks,           \* the api method calls of the pages
    memo,            \* the URL of the first resolution completed since the
                     \* module was loaded or the cache was last invalidated
    returned,        \* the URLs returned by completed getApiUrlWithFallback calls
    hx,              \* the frame of one call of the interceptor's error handler
    page             \* the Upload page

cfgVars == <<variant, envUrl, isProduction, backend>>
cacheVars == <<cachedApiUrl, apiUrlChecked>>
clientVars == <<apiInstance, apiInstanceBase, tasks, memo>>
pageVars == <<hx, page>>
vars == <<variant, envUrl, isProduction, backend, cachedApiUrl, apiUrlChecked, hc, rs, wk,
          apiInstance, apiInstanceBase, tasks, memo, returned, hx, page>>

HealthUrls == {Null, <<>>, localUrl, exampleUrl}

\* the module as loaded: nothing cached, nothing running
ModuleLoaded ==
    /\ cachedApiUrl = Null
    /\ apiUrlChecked = FALSE
    /\ hc = IdleHealth
    /\ rs = IdleResolve
    /\ wk = IdleWake
    /\ apiInstance = 0
    /\ apiInstanceBase = Null
    /\ tasks = [t \in Tasks |-> IdleTask]
    /\ memo = Null
    /\ returned = <<>>
    /\ hx = IdleHandler
    /\ page = PageMounted

(***************************************************************************)
(* HealthSpec: one call of checkApiHealth against an arbitrary network.    *)
(***************************************************************************)
HealthInit ==
    /\ variant = "plain" /\ envUrl = Null /\ isProduction = FALSE /\ backend = "any"
    /\ ModuleLoaded

CallCheckApiHealth ==
    /\ hc.pc = "idle"
    /\ \E v \in Variants, u \in HealthUrls, r \in 0..MaxRetries :
          hc' = HealthCall(v, u, r)
    /\ UNCHANGED <<clientVars, pageVars, cfgVars, cacheVars, rs, wk, returned>>

HealthProbeSettles ==
    /\ hc.pc = "get"
    /\ \E raw \in RawOutcomes : hc' = HealthSettle(hc, raw)
    /\ UNCHANGED <<clientVars, pageVars, cfgVars, cacheVars, rs, wk, returned>>

HealthTimerFires ==
    /\ hc.pc = "sleep"
    /\ hc' = HealthResume(hc)
    /\ UNCHANGED <<clientVars, pageVars, cfgVars, cacheVars, rs, wk, returned>>

HealthNext == CallCheckApiHealth \/ HealthProbeSettles \/ HealthTimerFires

HealthSpec == HealthInit /\ [][HealthNext]_vars

\* timers fire and requests settle (every probe carries a timeout)
HealthFairSpec == HealthSpec /\ WF_vars(HealthNext)

(***************************************************************************)
(* ResolveSpec: successive calls of getApiUrlWithFallback, one at a time,  *)
(* for every configured URL, both variants and every probe outcome.        *)
(***************************************************************************)
MaxCalls == 2        \* calls of getApiUrlWithFallback made one after another

ResolveInit ==
    /\ variant \in Variants
    /\ envUrl \in EnvUrls
    /\ isProduction \in BOOLEAN
    /\ backend = "any"
    /\ ModuleLoaded

\* the effect of a resolution step on the module-level cache
CacheWrite(r) ==
    /\ cachedApiUrl' = IF r.pc = "done" /\ ~r.hit THEN r.result ELSE cachedApiUrl
    /\ apiUrlChecked' = IF r.pc = "done" /\ ~r.hit THEN TRUE ELSE apiUrlChecked

Returns(r) ==
    IF r.pc = "done"
    THEN Append(returned, [url |-> r.result, probes |-> r.probes, hit |-> r.hit,
                           log |-> r.log])
    ELSE returned

CallGetApiUrlWithFallback ==
    /\ rs.pc \in {"idle", "done"}
    /\ Len(returned) < MaxCalls
    /\ rs' = ResolveCall(variant, envUrl, isProduction, cachedApiUrl, apiUrlChecked)
    /\ CacheWrite(rs')
    /\ returned' = Returns(rs')
    /\ UNCHANGED <<clientVars, pageVars, cfgVars, hc, wk>>

ResolveProbeSettles ==
    /\ ResolveRunning(rs)
    /\ rs.hf.pc = "get"
    /\ \E raw \in ProbeOutcomes : rs' = ResolveStep(rs, envUrl, raw)
    /\ CacheWrite(rs')
    /\ returned' = Returns(rs')
    /\ UNCHANGED <<clientVars, pageVars, cfgVars, hc, wk>>

ResolveTimerFires ==
    /\ ResolveRunning(rs)
    /\ rs.hf.pc = "sleep"
    /\ rs' = ResolveStep(rs, envUrl, CHOOSE raw \in ProbeOutcomes : TRUE)
    /\ CacheWrite(rs')
    /\ returned' = Returns(rs')
    /\ UNCHANGED <<clientVars, pageVars, cfgVars, hc, wk>>

ResolveNext == CallGetApiUrlWithFallback \/ ResolveProbeSettles \/ ResolveTimerFires

ResolveSpec == ResolveInit /\ [][ResolveNext]_vars

\* every probe carries a timeout and every backoff timer fires
ResolveFairSpec == ResolveSpec /\ WF_vars(ResolveProbeSettles \/ ResolveTimerFires)

(***************************************************************************)
(* WakeSpec: one call of wakeUpServer (part_001) against an arbitrary      *)
(* network, with or without a URL.                                         *)
(***************************************************************************)
WakeEnvUrls == {Null, exampleUrl}
WakeUrls == {localUrl, exampleUrl}

WakeInit ==
    /\ variant = "detect"
    /\ envUrl \in WakeEnvUrls
    /\ isProduction \in BOOLEAN
    /\ backend = "any"
    /\ ModuleLoaded

CallWakeUpServer ==
    /\ wk.pc = "idle"
    /\ \E u \in WakeUrls : wk' = WakeCall(u)
    /\ UNCHANGED <<clientVars, pageVars, cfgVars, cacheVars, hc, rs, returned>>

CallWakeUpServerNoUrl ==
    /\ wk.pc = "idle"
    /\ wk' = WakeCallNoUrl
    /\ rs' = ResolveCall(variant, envUrl, isProduction, cachedApiUrl, apiUrlChecked)
    /\ CacheWrite(rs')
    /\ UNCHANGED <<clientVars, pageVars, cfgVars, hc, returned>>

\* the resolution awaited by a call without a URL advances by one step
WakeResolutionAdvances ==
    /\ wk.pc = "resolve"
    /\ ResolveRunning(rs)
    /\ \E raw \in ProbeOutcomes : rs' = ResolveStep(rs, envUrl, raw)
    /\ CacheWrite(rs')
    /\ UNCHANGED <<clientVars, pageVars, cfgVars, hc, wk, returned>>

\* the awaited resolution has returned: the first probe is issued
WakeResolutionReturns ==
    /\ wk.pc = "resolve"
    /\ rs.pc = "done"
    /\ wk' = WakeResolved(wk, rs.result)
    /\ rs' = IdleResolve
    /\ UNCHANGED <<clientVars, pageVars, cfgVars, cacheVars, hc, returned>>

WakeProbeSettles ==
    /\ wk.pc = "get"
    /\ \E raw \in RawOutcomes : wk' = WakeSettle(wk, raw)
    /\ UNCHANGED <<clientVars, pageVars, cfgVars, cacheVars, hc, rs, returned>>

WakeTimerFires ==
    /\ wk.pc = "sleep"
    /\ wk' = WakeResume(wk)
    /\ UNCHANGED <<clientVars, pageVars, cfgVars, cacheVars, hc, rs, returned>>

WakeNext ==
    \/ CallWakeUpServer
    \/ CallWakeUpServerNoUrl
    \/ WakeResolutionAdvances
    \/ WakeResolutionReturns
    \/ WakeProbeSettles
    \/ WakeTimerFires

WakeSpec == WakeInit /\ [][WakeNext]_vars

\* timers fire and requests settle (every probe carries a timeout)
WakeFairSpec == WakeSpec /\ WF_vars(WakeNext)

(***************************************************************************)
(* ClientSpec: NumTasks api method calls, started at any time, against an  *)
(* arbitrary network.  The event loop runs a resumed call to its next      *)
(* await before it delivers another reply or timer; calls made in the same *)
(* tick start one after the other before any of them is resumed.           *)
(***************************************************************************)
ClientEnvUrls == {Null, exampleUrl}

\* the hostname is read only when no URL is configured (or the local one)
ClientConfig ==
    /\ variant \in Variants
    /\ envUrl \in ClientEnvUrls
    /\ isProduction \in (IF envUrl = Null THEN BOOLEAN ELSE {TRUE})
    /\ ModuleLoaded

ClientInit == ClientConfig /\ backend = "any"

\* the outcomes the network can choose among
Possible(outcomes) == IF backend = "down" THEN {raw \in outcomes : Down(raw)} ELSE outcomes

World ==
    [variant |-> variant, env |-> envUrl, production |-> isProduction,
     cached |-> cachedApiUrl, checked |-> apiUrlChecked,
     apiInstance |-> apiInstance, instanceBase |-> apiInstanceBase, tasks |-> tasks,
     memo |-> memo]

InstallWorld(w) ==
    /\ cachedApiUrl' = w.cached
    /\ apiUrlChecked' = w.checked
    /\ apiInstance' = w.apiInstance
    /\ apiInstanceBase' = w.instanceBase
    /\ tasks' = w.tasks
    /\ memo' = w.memo
    /\ UNCHANGED <<pageVars, cfgVars, hc, rs, wk, returned>>

\* the step's result is computed once, then stored
Install(world) == \E w \in {world} : InstallWorld(w)

NoMicrotaskPending == \A t \in Tasks : ~MicrotaskPending(tasks[t])

\* a page calls an api method
ApiCallStarts(t) ==
    /\ tasks[t].pc = "idle"
    /\ \A s \in 1..(t - 1) : tasks[s].pc # "idle"
    /\ Install(StartCall(World, t))

\* a call suspended at a settled await is resumed
ApiCallContinues(t) ==
    /\ MicrotaskPending(tasks[t])
    /\ Install(Continue(World, t))

\* the reply to, or the failure of, the request of a call arrives
ApiRequestSettles(t) ==
    /\ tasks[t].pc = "request"
    /\ NoMicrotaskPending
    /\ \E raw \in Possible(ReqOutcomes) : Install(RequestSettles(World, t, raw))

\* a probe settles or a timer fires in the resolution a call awaits
ApiResolutionAdvances(t) ==
    /\ tasks[t].pc \in {"creating", "retryResolve", "refreshing"}
    /\ ResolveRunning(tasks[t].rs)
    /\ NoMicrotaskPending
    /\ \E raw \in Possible(ProbeOutcomes) : Install(ResolveAdvances(World, t, raw))

\* a probe settles or a timer fires in the wake-up a call awaits
ApiWakeAdvances(t) ==
    /\ tasks[t].pc = "waking"
    /\ NoMicrotaskPending
    /\ \E raw \in Possible(ProbeOutcomes) : Install(WakeAdvances(World, t, raw))

ClientNext ==
    \E t \in Tasks :
        \/ ApiCallStarts(t)
        \/ ApiCallContinues(t)
        \/ ApiRequestSettles(t)
        \/ ApiResolutionAdvances(t)
        \/ ApiWakeAdvances(t)

ClientSpec == ClientInit /\ [][ClientNext]_vars

\* the event loop resumes suspended calls; every request and probe carries a
\* timeout and every timer fires, so whatever a started call awaits arrives
ClientProgress ==
    \E t \in Tasks :
        \/ ApiCallContinues(t)
        \/ ApiRequestSettles(t)
        \/ ApiResolutionAdvances(t)
        \/ ApiWakeAdvances(t)

(***************************************************************************)
(* SequentialSpec: the same client when a page makes its api calls one     *)
(* after the other, each after the one before has settled.                 *)
(***************************************************************************)
CallEnded(task) == task.pc \in {"resolved", "rejected"}

\* a page calls an api method after the calls before it have settled
ApiCallStartsAlone(t) ==
    /\ \A s \in 1..(t - 1) : CallEnded(tasks[s])
    /\ ApiCallStarts(t)

SequentialNext ==
    \E t \in Tasks :
        \/ ApiCallStartsAlone(t)
        \/ ApiCallContinues(t)
        \/ ApiRequestSettles(t)
        \/ ApiResolutionAdvances(t)
        \/ ApiWakeAdvances(t)

\* the server may be one that is never reached
SequentialInit == ClientConfig /\ backend \in {"any", "down"}

SequentialSpec == SequentialInit /\ [][SequentialNext]_vars

SequentialFairSpec == SequentialSpec /\ WF_vars(ClientProgress)

(***************************************************************************)
(* InterceptorSpec: one failed request handed to the response interceptor's *)
(* error handler, for every error object, with the awaited calls returning *)
(* any value or throwing.                                                   *)
(***************************************************************************)
ResolvedUrls == {localUrl, possibleUrls[1]}

InterceptorInit ==
    /\ variant = "plain" /\ envUrl = Null /\ isProduction = FALSE /\ backend = "any"
    /\ ModuleLoaded

\* a request has failed: axios calls the handler with its error
ErrorHandlerCalled ==
    /\ hx.pc = "idle"
    /\ \E v \in Variants, error \in RequestErrors, retry \in BOOLEAN :
          hx' = HandlerCall(v, error, retry, "direct")
    /\ UNCHANGED <<page, clientVars, cfgVars, cacheVars, hc, rs, wk, returned>>

RetryResolutionReturns ==
    /\ hx.pc = "resolve"
    /\ \E url \in ResolvedUrls : hx' = HandlerResolved(hx, url)
    /\ UNCHANGED <<page, clientVars, cfgVars, cacheVars, hc, rs, wk, returned>>

RetryWakeReturns ==
    /\ hx.pc = "wake"
    /\ \E woke \in BOOLEAN : hx' = HandlerWoke(hx, woke)
    /\ UNCHANGED <<page, clientVars, cfgVars, cacheVars, hc, rs, wk, returned>>

RetryRefreshReturns ==
    /\ hx.pc = "refresh"
    /\ \E newApiUrl \in ResolvedUrls : hx' = HandlerRefreshed(hx, newApiUrl)
    /\ UNCHANGED <<page, clientVars, cfgVars, cacheVars, hc, rs, wk, returned>>

\* one of the awaited calls of the try block throws
RetryCycleThrows ==
    /\ hx.pc \in {"resolve", "wake", "refresh"}
    /\ hx' = HandlerCatches(hx)
    /\ UNCHANGED <<page, clientVars, cfgVars, cacheVars, hc, rs, wk, returned>>

ReissuedRequestFails ==
    /\ hx.pc = "reissued"
    /\ \E error \in RequestErrors : hx' = HandlerReissueFails(hx, error)
    /\ UNCHANGED <<page, clientVars, cfgVars, cacheVars, hc, rs, wk, returned>>

ReissuedRequestSucceeds ==
    /\ hx.pc = "reissued"
    /\ hx' = HandlerReissueSucceeds(hx)
    /\ UNCHANGED <<page, clientVars, cfgVars, cacheVars, hc, rs, wk, returned>>

InterceptorNext ==
    \/ ErrorHandlerCalled
    \/ RetryResolutionReturns
    \/ RetryWakeReturns
    \/ RetryRefreshReturns
    \/ RetryCycleThrows
    \/ ReissuedRequestFails
    \/ ReissuedRequestSucceeds

InterceptorSpec == InterceptorInit /\ [][InterceptorNext]_vars

(***************************************************************************)
(* UploadSpec: the Upload page from its mount, the user selecting files    *)
(* and clicking the button, the api calls settling in any way.             *)
(***************************************************************************)
UploadInit ==
    /\ variant = "plain" /\ envUrl = Null /\ isProduction = FALSE /\ backend = "any"
    /\ ModuleLoaded

\* the mount-time api.healthCheck() returns (checkApiHealth never throws)
MountCheckReturns ==
    /\ page.mount = "pending" /\ ~page.navigated
    /\ \E success \in BOOLEAN : page' = CheckServerReturns(page, success)
    /\ UNCHANGED <<hx, clientVars, cfgVars, cacheVars, hc, rs, wk, returned>>

UserSelectsFiles ==
    /\ ~page.navigated
    /\ \E selected \in FileLists : page' = handleFileSelect(page, selected)
    /\ UNCHANGED <<hx, clientVars, cfgVars, cacheVars, hc, rs, wk, returned>>

\* a click on the upload button, which takes clicks when not disabled
UserClicksUpload ==
    /\ ~page.navigated
    /\ ~ButtonDisabled(page)
    /\ page.runs < MaxRuns
    /\ page' = handleUpload(page)
    /\ UNCHANGED <<hx, clientVars, cfgVars, cacheVars, hc, rs, wk, returned>>

PreflightCheckReturns ==
    /\ page.h.pc = "preflight"
    /\ page' = PreflightReturns(page)
    /\ UNCHANGED <<hx, clientVars, cfgVars, cacheVars, hc, rs, wk, returned>>

UploadRequestSettles ==
    /\ page.h.pc = "upload"
    /\ \E outcome \in UploadOutcomes : page' = UploadReplied(page, outcome)
    /\ UNCHANGED <<hx, clientVars, cfgVars, cacheVars, hc, rs, wk, returned>>

\* setTimeout(() => navigate('/results'), 1500): the page is unmounted
NavigateToResults ==
    /\ page.h.pc = "ended" /\ ~page.navigated
    /\ page' = [page EXCEPT !.navigated = TRUE]
    /\ UNCHANGED <<hx, clientVars, cfgVars, cacheVars, hc, rs, wk, returned>>

UploadNext ==
    \/ MountCheckReturns
    \/ UserSelectsFiles
    \/ UserClicksUpload
    \/ PreflightCheckReturns
    \/ UploadRequestSettles
    \/ NavigateToResults

UploadSpec == UploadInit /\ [][UploadNext]_vars

(***************************************************************************)
(* Properties of checkApiHealth.                                           *)
(***************************************************************************)
HealthDone == hc.pc = "done"

\* a reply axios hands to the caller as a response whose body has status 'ok'
OkReply(raw) == raw.kind = "http" /\ raw.status < 500 /\ raw.body = "ok"

\* a failure of the transport classes name resolution, network, request timeout
TransportFailure(raw) == raw.kind = "neterr" /\ raw.code \in PlainRetryCodes

AllTransportFailures(h) == \A k \in 1..Len(h.seen) : TransportFailure(h.seen[k])

\* C3: checkApiHealth never propagates an exception; for every url, every
\* retries >= 0 and every sequence of probe outcomes the call ends by
\* returning an object whose success field is a boolean.
C3_HealthAlwaysReturns ==
    /\ [](/\ hc.pc # "threw"
          /\ hc.probes <= hc.retries
          /\ HealthDone => /\ "success" \in DOMAIN hc.result
                           /\ hc.result.success \in BOOLEAN)
    /\ <>HealthDone

\* C3 witness: a call that used all its attempts has returned, its first
\* probe answered 500 and its last ended in an error the code does not classify.
C3_Witness ==
    /\ HealthDone
    /\ hc.retries = MaxRetries
    /\ hc.probes = MaxRetries
    /\ hc.seen[Len(hc.seen)] = [kind |-> "neterr", code |-> "OTHER"]
    /\ hc.seen[1] = [kind |-> "http", status |-> 500, body |-> "none"]

\* C4: when every probe fails with a transport error, checkApiHealth(url, n)
\* with n >= 1 issues exactly n probes, never more, and returns success:false
\* with the last error.
C4_TransportExhaustsAttempts ==
    (hc.pc # "idle" /\ hc.retries >= 1 /\ AllTransportFailures(hc)) =>
        /\ hc.probes <= hc.retries
        /\ hc.pc # "threw"
        /\ HealthDone =>
              /\ hc.probes = hc.retries
              /\ Len(hc.seen) = hc.retries
              /\ hc.result = [success |-> FALSE,
                              error |-> AxiosSettle(hc.seen[Len(hc.seen)])]

C4_Witness ==
    /\ HealthDone
    /\ hc.retries = MaxRetries
    /\ AllTransportFailures(hc)
    /\ hc.probes = MaxRetries
    /\ \E k \in 1..Len(hc.seen) : hc.seen[k].code = "ECONNABORTED"

\* C5: checkApiHealth returns {success:true, url} exactly when one attempt
\* got a response below 500 whose body has status 'ok'; it returns at the
\* first such attempt and issues no probe after it.
C5_SuccessIffOkReply ==
    /\ HealthDone =>
          ((hc.result = [success |-> TRUE, url |-> hc.url])
              <=> (\E k \in 1..Len(hc.seen) : OkReply(hc.seen[k])))
    /\ HealthDone => (hc.result.success <=> hc.result = [success |-> TRUE, url |-> hc.url])
    /\ \A k \in 1..Len(hc.seen) :
          OkReply(hc.seen[k]) =>
              /\ k = Len(hc.seen)
              /\ HealthDone
              /\ hc.probes = k

C5_Witness ==
    /\ HealthDone
    /\ hc.result.success
    /\ Len(hc.seen) = MaxRetries
    /\ TransportFailure(hc.seen[1])
    /\ hc.seen[2].kind = "http"

(***************************************************************************)
(* Properties of endpoint resolution.                                      *)
(***************************************************************************)
Spaces(n) == [k \in 1..n |-> " "]
Slashes(n) == [k \in 1..n |-> "/"]

\* t is s without its leading and trailing whitespace
IsTrimOf(t, s) ==
    /\ \E a \in 0..Len(s), b \in 0..Len(s) : s = Spaces(a) \o t \o Spaces(b)
    /\ t # <<>> => (t[1] # " " /\ t[Len(t)] # " ")

\* r is t without its trailing slashes
IsStripOf(r, t) ==
    /\ \E n \in 0..Len(t) : t = r \o Slashes(n)
    /\ ~EndsWithSlash(r)

\* u is the configured URL s, trimmed and with the trailing slashes stripped
IsNormalizedOf(u, s) ==
    \E t \in {SubSeq(s, a, b) : a \in 1..(Len(s) + 1), b \in 0..Len(s)} :
        IsTrimOf(t, s) /\ IsStripOf(u, t)

\* present and non-empty after trimming whitespace
Configured(s) == s # Null /\ \E k \in 1..Len(s) : s[k] # " "

\* C8: for every configured URL that ends in slashes, the URL returned by
\* getApiUrlWithFallback, the baseURL put on outgoing requests and the URL
\* used for health probes have no trailing slash, and no constructed URL
\* contains "//api".
C8_NoTrailingSlash ==
    EndsWithSlash(envUrl) =>
        /\ \A k \in 1..Len(returned) :
              /\ ~EndsWithSlash(returned[k].url)
              /\ ~EndsWithSlash(requestBaseUrl(variant, cachedApiUrl, returned[k].url))
              /\ ~HasDoubleSlashApi(healthUrl(variant, returned[k].url))
        /\ \A t \in rs.targets : ~HasDoubleSlashApi(t)

\* the health checks a resolution made of the local default all succeeded
LocalProbesOk(log) == \A k \in 1..Len(log) : log[k][1] = localUrl => log[k][2]

DetectBase == IF Truthy(envUrl) THEN envUrl ELSE localUrl

\* the successful health checks of one resolution
Successes(log) == {k \in 1..Len(log) : log[k][2]}

WakeDone == wk.pc = "done"

\* C6: wakeUpServer(url) issues at most 3 health probes and always ends with
\* a boolean, whatever the probe outcomes; it returns false only after
\* exactly 3 probes.
C6_WakeBoundedAndReturns ==
    /\ [](/\ wk.probes <= 3
          /\ Len(wk.seen) <= wk.probes
          /\ WakeDone => /\ wk.result \in BOOLEAN
                         /\ wk.probes = Len(wk.seen)
                         /\ wk.result = FALSE => wk.probes = 3)
    /\ <>WakeDone

\* C6 witness: a call given a URL returned false after a response without
\* status 'ok', an unclassified error and a timeout.
C6_Witness ==
    /\ WakeDone
    /\ wk.given
    /\ wk.result = FALSE
    /\ wk.seen = << [kind |-> "http", status |-> 200, body |-> "other"],
                    [kind |-> "neterr", code |-> "OTHER"],
                    [kind |-> "neterr", code |-> "ETIMEDOUT"] >>

\* C7: called with a url, wakeUpServer spends at most
\* 5000 + 15000 + 15000 + 2000 + 4000 = 41000 ms, every probe counted at its
\* full timeout; no sleep follows the third attempt.
C7_WakeTimeBudget ==
    wk.given =>
        /\ wk.elapsed <= 41000
        /\ Len(wk.delays) <= 2
        /\ wk.pc = "sleep" => wk.attempt < 3
        /\ (wk.attempt >= 3 /\ wk.pc # "sleep") => Len(wk.delays) = 2
        /\ wk.pc = "get" => Len(wk.delays) = wk.attempt - 1

\* C7 witness: the whole budget was spent.
C7_Witness ==
    /\ WakeDone
    /\ wk.given
    /\ wk.elapsed = 41000
    /\ wk.delays = <<2000, 4000>>
    /\ wk.timeouts = <<5000, 15000, 15000>>

(***************************************************************************)
(* Properties of the api client.                                           *)
(***************************************************************************)
NetworkClass(err) == err.kind = "thrown" /\ err.code \in {"ERR_NETWORK", "ERR_NAME_NOT_RESOLVED"}

\* a call never starts a second wake-up sequence nor a second re-issue
RetryBounded ==
    \A t \in Tasks : tasks[t].wakeSeqs <= 1 /\ tasks[t].reissues <= 1

\* whatever settles a re-issued request (its descriptor carries _retry) ends
\* the call: a response resolves it, any failure is rejected to the caller
ReissueIsFinal ==
    \A t \in Tasks :
        (tasks[t].pc = "request" /\ tasks[t].retry /\ tasks'[t] # tasks[t])
            => /\ CallEnded(tasks'[t])
               /\ tasks'[t].wakeSeqs = tasks[t].wakeSeqs
               /\ tasks'[t].reissues = tasks[t].reissues

\* with a server that is never reached a call of the wake-and-retry client is
\* never answered, and is rejected only after one wake-up sequence
DownRejectsAfterOneWake ==
    (backend = "down" /\ variant = "detect") =>
        \A t \in Tasks :
            /\ tasks[t].pc # "resolved"
            /\ tasks[t].pc = "rejected" => tasks[t].wakeSeqs = 1 /\ NetworkClass(tasks[t].err)

\* C1: for every sequence of network outcomes one api call starts at most one wake-up sequence and is
\* re-issued at most once; a failure of the re-issued request is rejected to
\* the caller without another wake-up; with a server that is never reached
\* every started call of the wake-and-retry client ends, in a rejection,
\* after exactly one wake-up sequence.
C1_RetryAtMostOnce ==
    /\ [](RetryBounded /\ DownRejectsAfterOneWake)
    /\ [][ReissueIsFinal]_vars
    /\ \A t \in Tasks :
           (backend = "down" /\ variant = "detect" /\ tasks[t].pc # "idle")
               ~> (tasks[t].pc = "rejected" /\ tasks[t].wakeSeqs = 1)

\* a call whose re-issued request failed for want of a network was rejected
\* after its one wake-up sequence
C1_Witness ==
    \E t \in Tasks :
        /\ variant = "detect"
        /\ tasks[t].pc = "rejected"
        /\ tasks[t].reissues = 1
        /\ tasks[t].wakeSeqs = 1
        /\ NetworkClass(tasks[t].err)

\* C2: createApiInstance runs at most once and every caller of
\* getApiInstance is handed the same instance, the one the module keeps.
C2_SingleInstance ==
    /\ createCalls(tasks) <= 1
    /\ \A t \in Tasks : tasks[t].inst # 0 => tasks[t].inst = apiInstance

\* C10: once a getApiUrlWithFallback call has completed, and until the
\* interceptor invalidates the cache, a call made now returns the URL that
\* call returned, without a health probe.
C10_LaterCallsReturnFirstUrl ==
    memo # Null =>
        LET r == ResolveCall(variant, envUrl, isProduction, cachedApiUrl, apiUrlChecked)
        IN  r.pc = "done" /\ r.result = memo /\ r.probes = 0

\* the calls whose getApiUrlWithFallback is probing
Resolving == {t \in Tasks : ResolveRunning(tasks[t].rs)}

\* C11: between invalidations at most one resolution run executes at a time,
\* and the cached URL, once a resolution has set it, stays the URL that
\* resolution returned.
C11_SingleResolution ==
    /\ Cardinality(Resolving) <= 1
    /\ memo # Null => cachedApiUrl = memo

\* the wake-up of call t found the server healthy
Woke(task) == task.wk.result

\* a call settles with the outcome of the last request it sent
ReceivesReply(task) ==
    /\ task.pc = "resolved" => RequestSettle(task.reply).kind = "response"
    /\ task.pc = "rejected" => task.err = RequestSettle(task.reply)

\* after a wake-up that succeeded, on whichever attempt, the request has been
\* sent again once; the caller gets what that request got
WokeThenReissuedOnce ==
    \A t \in Tasks :
        (Woke(tasks[t]) /\ tasks[t].pc # "waking") =>
            /\ tasks[t].reissues = 1
            /\ tasks[t].wakeSeqs = 1
            /\ tasks[t].pc \in {"request", "resolved", "rejected"}
            /\ ReceivesReply(tasks[t])

\* the step that settles the request sent again after the wake-up ends the
\* call with the outcome of that request
ReissueOutcomeIsFinal ==
    \A t \in Tasks :
        (Woke(tasks[t]) /\ tasks[t].pc = "request" /\ tasks'[t] # tasks[t])
            => /\ CallEnded(tasks'[t])
               /\ tasks'[t].reply \in ReqOutcomes
               /\ ReceivesReply(tasks'[t])

\* C12: when a request fails with a DNS or network error and the wake-up that
\* follows succeeds, on attempt 1, 2 or 3, the request is re-issued exactly
\* once and the call ends with the outcome of the re-issued request: resolved
\* with its response, rejected with its error.
C12_WokeReissuesOnce ==
    /\ []WokeThenReissuedOnce
    /\ [][ReissueOutcomeIsFinal]_vars
    /\ \A t \in Tasks : Woke(tasks[t]) ~> CallEnded(tasks[t])

\* a call whose first request failed for want of a network, whose wake-up
\* succeeded, and whose re-issued request was answered 500: the caller got
\* the 500 error
C12_Witness ==
    \E t \in Tasks :
        /\ tasks[t].pc = "rejected"
        /\ Woke(tasks[t])
        /\ tasks[t].reissues = 1
        /\ tasks[t].reply = [kind |-> "http", status |-> 500, body |-> "none"]
        /\ tasks[t].err.code = "ERR_BAD_RESPONSE"

\* C13: the request re-issued after a successful wake-up of a URL is sent to
\* that URL, whatever other calls did to the cached URL in the meantime.
C13_ReissueToWokenUrl ==
    \A t \in Tasks :
        (Woke(tasks[t]) /\ tasks[t].pc = "request") =>
            tasks[t].baseURL = tasks[t].apiUrl

(***************************************************************************)
(* Properties of the interceptor's error handler.                          *)
(***************************************************************************)
HandlerRejected == hx.pc = "rejected"

ClassifiedMessage(v, error) ==
    IF NetworkCode(error)
    THEN IF v = "plain" THEN plainConnectivityMessage ELSE detectConnectivityMessage
    ELSE IF error.code = "ECONNABORTED" /\ IncludesTimeout(error.message)
         THEN plainTimeoutMessage
    ELSE IF error.response.present
         THEN JsOr(error.response.dataMessage, error.message)
    ELSE genericMessage

\* C15: the userMessage of an error rejected with annotation is given by the
\* error's class, in this order: network or DNS failure, the connectivity
\* message; timeout, the 'server may be waking up' message; an HTTP response,
\* the server's message or else the error's own; anything else, the generic
\* fallback.
C15_MessageByClass ==
    (HandlerRejected /\ hx.path \in {"direct", "reissue"}) =>
        hx.rejection.userMessage = ClassifiedMessage(hx.variant, hx.error)

(***************************************************************************)
(* Properties of failed api requests.                                      *)
(***************************************************************************)
\* the reply is an HTTP error response (4xx or 5xx)
HttpErrorReply(raw) == raw.kind = "http" /\ raw.status >= 400

\* the first request of call t is in flight
FirstRequest(task) == task.pc = "request" /\ task.reissues = 0

\* the step in which an HTTP error response settles the first request of a
\* call rejects the call and changes neither the cache nor the _retry marker
HttpErrorOnlyRejects ==
    \A t \in Tasks :
        (FirstRequest(tasks[t]) /\ tasks'[t] # tasks[t] /\ HttpErrorReply(tasks'[t].reply))
            => /\ tasks'[t].pc = "rejected"
               /\ tasks'[t].err.hasResponse
               /\ tasks'[t].wakeSeqs = 0
               /\ tasks'[t].reissues = 0
               /\ tasks'[t].retry = tasks[t].retry
               /\ cachedApiUrl' = cachedApiUrl
               /\ apiUrlChecked' = apiUrlChecked

\* a call whose first request got an HTTP error response is rejected with it
\* and has neither woken the server nor sent the request again
HttpErrorNeverRetried ==
    \A t \in Tasks :
        (HttpErrorReply(tasks[t].reply) /\ tasks[t].wakeSeqs = 0) =>
            /\ tasks[t].pc = "rejected"
            /\ tasks[t].reissues = 0
            /\ ~tasks[t].retry

\* C16: a request that fails with an HTTP error response never triggers a
\* wake-up, a cache invalidation or a re-issue: the call is rejected after
\* the one request, and cachedApiUrl, apiUrlChecked and the request's _retry
\* marker are as they were.
C16_HttpErrorNotRetried ==
    /\ []HttpErrorNeverRetried
    /\ [][HttpErrorOnlyRejects]_vars

\* a call of the wake-and-retry client was answered 404 and rejected at once,
\* the cached URL still in place
C16_Witness ==
    \E t \in Tasks :
        /\ variant = "detect"
        /\ tasks[t].pc = "rejected"
        /\ tasks[t].reply = [kind |-> "http", status |-> 404, body |-> "other"]
        /\ tasks[t].wakeSeqs = 0
        /\ tasks[t].reissues = 0
        /\ cachedApiUrl # Null /\ apiUrlChecked

\* C17: a call rejected with a transport-class error (name resolution,
\* network, timeout) has gone through one wake-and-retry cycle.
C17_TransportErrorsRetried ==
    \A t \in Tasks :
        (tasks[t].pc = "rejected" /\ TransportFailure(tasks[t].reply))
            => tasks[t].retry /\ tasks[t].wakeSeqs = 1

(***************************************************************************)
(* More properties of wakeUpServer.                                        *)
(***************************************************************************)
\* the probes of the call that were answered with status below 500 and a
\* body whose status is 'ok'
OkProbes == {k \in 1..Len(wk.seen) : OkReply(wk.seen[k])}

\* C18: wakeUpServer returns true if and only if one of its at most 3 probes
\* got a response with status below 500 whose body has status 'ok', and it
\* returns at the first such probe: none is issued after it.
C18_WakeTrueIffOkProbe ==
    /\ wk.probes <= maxRetries
    /\ OkProbes \subseteq {Len(wk.seen)}
    /\ OkProbes # {} => WakeDone /\ wk.result = TRUE /\ wk.probes = Len(wk.seen)
    /\ WakeDone => (wk.result = TRUE <=> OkProbes # {})

\* a call returned true at its second probe, a 404 answered with status
\* 'ok', after a 500 answered with status 'ok'
C18_Witness ==
    /\ WakeDone
    /\ wk.result = TRUE
    /\ wk.seen = << [kind |-> "http", status |-> 500, body |-> "ok"],
                    [kind |-> "http", status |-> 404, body |-> "ok"] >>

(***************************************************************************)
(* Properties of the Upload page.                                          *)
(***************************************************************************)
\* the page shows a failure and nothing is in flight
FailureShown(p) ==
    /\ p.errorMessage # ""
    /\ p.mount = "done"
    /\ p.h.pc = "idle"
    /\ ~p.navigated

\* C19: once a failure is shown on the Upload page, of the mount-time health
\* check or of an upload, and nothing is in flight any more, the upload
\* button is enabled whenever files are selected: the user can start another
\* upload without a reload or a remount.
C19_RetryAfterFailure ==
    (FailureShown(page) /\ Len(page.files) > 0) => ~ButtonDisabled(page)

\* the files of the run for which an upload request was sent, in order
SentOnce(p, last) == p.sent = [k \in 1..last |-> k]

\* a 2xx response whose body has success:false
FailedFlag == [kind |-> "response", success |-> FALSE]

\* the run of handleUpload ended in its catch block with the error raised
\* for file i
EndedOnFailedFile(p, i) ==
    /\ p.h.pc = "idle"
    /\ p.h.i = i
    /\ i \in 1..Len(p.h.files)
    /\ p.caught = UploadFailedError(p.h.files[i])

\* after a success:false response the run is over: an error was raised for
\* that file, requests went out once for the files up to it and for no other
FailedFlagEndsRun ==
    page.reply = FailedFlag =>
        /\ EndedOnFailedFile(page, page.h.i)
        /\ SentOnce(page, page.h.i)
        /\ ~page.uploading
        /\ ~page.uploadComplete

\* the step that takes the success:false response shows an error message
FailedFlagShowsError ==
    (page.h.pc = "upload" /\ page'.reply = FailedFlag) =>
        /\ page'.errorMessage # ""
        /\ page'.alerts = page.alerts + 1
        /\ page'.sent = page.sent

\* C20: when the response for a file has success:false, handleUpload raises
\* an error for that file: one upload request was sent for each file up to
\* it, none for the files after it and none again for it; it ends with
\* uploading false and an error message that is not empty.
C20_FailedFlagStopsUpload ==
    /\ []FailedFlagEndsRun
    /\ [][FailedFlagShowsError]_vars

\* the first of two files was answered success:false: no request went out
\* for the second, the page shows the error and is no longer uploading
C20_Witness ==
    /\ EndedOnFailedFile(page, 1)
    /\ Len(page.h.files) = 2
    /\ page.sent = <<1>>
    /\ page.errorMessage = "Failed to upload report.pdf"
    /\ ~page.uploading

(***************************************************************************)
(* Properties of the request interceptor and of the cache.                 *)
(***************************************************************************)
\* the step sends a request of call t: the request interceptor runs in it
Sends(t) == tasks[t].pc # "request" /\ tasks'[t].pc = "request"

\* C21: every request that leaves the client carries as base URL the value
\* cachedApiUrl has when the request interceptor runs, whatever URL the
\* instance was constructed with, also while the retry cycle of another
\* request has the cache invalidated.
C21_RequestCarriesCachedUrl ==
    [][\A t \in Tasks : Sends(t) => tasks'[t].baseURL = cachedApiUrl']_vars

\* the wake-up call t awaits returns in this step
WakeEnds(t) == tasks[t].pc = "waking" /\ tasks'[t].pc # "waking"

\* the resolution call t awaits after the invalidation returns in this step
RefreshEnds(t) == tasks[t].pc = "refreshing" /\ tasks'[t].pc # "refreshing"

\* the userMessage the interceptor attaches to an error of this code is the
\* 'server may be sleeping or unavailable' message
SleepingMessage(err) ==
    \A error \in RequestErrors :
        error.code = err.code => userMessage(variant, error) = detectConnectivityMessage

\* a wake-up that returns false is followed at once by the invalidation of
\* the cache and a new resolution, which probes
FailedWakeInvalidates ==
    \A t \in Tasks :
        (WakeEnds(t) /\ ~Woke(tasks'[t])) =>
            /\ tasks'[t].pc = "refreshing"
            /\ cachedApiUrl' = Null
            /\ apiUrlChecked' = FALSE
            /\ ResolveRunning(tasks'[t].rs)
            /\ tasks'[t].reissues = tasks[t].reissues

\* when that resolution returns (it writes the URL it returns to the cache)
\* the request is sent again, to the new URL, exactly when the new URL is not
\* the one whose wake-up failed; otherwise the call is rejected with the
\* network error of its request
RefreshDecides ==
    \A t \in Tasks :
        RefreshEnds(t) =>
            LET newApiUrl == cachedApiUrl'
            IN  /\ Truthy(newApiUrl)
                /\ apiUrlChecked'
                /\ IF newApiUrl # tasks[t].apiUrl
                   THEN /\ tasks'[t].pc = "request"
                        /\ tasks'[t].baseURL = newApiUrl
                        /\ tasks'[t].reissues = tasks[t].reissues + 1
                   ELSE /\ tasks'[t].pc = "rejected"
                        /\ tasks'[t].reissues = tasks[t].reissues
                        /\ NetworkClass(tasks'[t].err)
                        /\ SleepingMessage(tasks'[t].err)

\* C22: when the wake-up fails the response interceptor clears cachedApiUrl
\* and apiUrlChecked and runs endpoint resolution again; when it returns, the
\* request is re-issued against the newly resolved URL if and only if that
\* URL differs from the one that failed, and otherwise the call is rejected
\* with the 'server may be sleeping or unavailable' message and nothing is
\* re-issued.
C22_FailedWakeRefreshes ==
    /\ [][FailedWakeInvalidates /\ RefreshDecides]_vars
    /\ \A t \in Tasks :
           (tasks[t].pc = "refreshing") ~> (tasks[t].pc \in {"request", "rejected", "resolved"})

\* the wake-up of the first call failed and its new resolution gave the same
\* URL: rejected, nothing re-issued; the second call's new resolution gave
\* another URL, and its request is on its way there
C22_Witness ==
    /\ tasks[1].pc = "rejected" /\ tasks[1].wakeSeqs = 1 /\ tasks[1].reissues = 0
    /\ tasks[2].pc = "request" /\ tasks[2].wakeSeqs = 1 /\ tasks[2].reissues = 1
    /\ ~Woke(tasks[2])
    /\ tasks[2].baseURL # tasks[2].apiUrl
    /\ tasks[2].baseURL = cachedApiUrl

(***************************************************************************)
(* More properties of checkApiHealth.                                      *)
(***************************************************************************)
\* a failure that is not of the transport classes: a response below 500
\* whose body is not status 'ok', or a thrown error of another code
NonTransportFailure(raw) ==
    LET settled == AxiosSettle(raw)
    IN  \/ settled.kind = "response" /\ ~BodyIsOk(settled)
        \/ settled.kind = "thrown" /\ settled.code \notin PlainRetryCodes

\* C23: in part_000 a non-transport failure makes checkApiHealth return
\* failure at once: the attempt that met it is the last one, no probe is
\* issued after it.
C23_NonTransportReturnsAtOnce ==
    hc.variant = "plain" =>
        \A k \in 1..Len(hc.seen) :
            NonTransportFailure(hc.seen[k]) =>
                /\ k = Len(hc.seen)
                /\ HealthDone
                /\ hc.result.success = FALSE
                /\ hc.probes = k

\* the error thrown by the attempt the call has just made, if it threw
LastSettled(h) == AxiosSettle(h.seen[Len(h.seen)])

\* attempt h.i + 1 has ended in a thrown error and the loop has not moved on
JustThrew(h) ==
    /\ Len(h.seen) = h.i + 1
    /\ LastSettled(h).kind = "thrown"

\* the delay after a failed attempt n: 2000*n ms for a transport-classified
\* error in part_000, 1000*n ms for every other thrown error
BackoffAfter(v, err, n) ==
    IF v = "plain" /\ err.code \in PlainRetryCodes THEN 2000 * n ELSE 1000 * n

\* after a thrown error at attempt n: the delay when n is not the last
\* attempt, the return of {success:false, error} when it is
ThrowThenDelayOrReturn ==
    JustThrew(hc) =>
        LET n == hc.i + 1
        IN  IF n < hc.retries
            THEN /\ hc.pc = "sleep"
                 /\ hc.delays # <<>>
                 /\ hc.delays[Len(hc.delays)] = BackoffAfter(hc.variant, LastSettled(hc), n)
            ELSE /\ hc.pc = "done"
                 /\ hc.result = [success |-> FALSE, error |-> LastSettled(hc)]

\* a delay is only ever started by a thrown error of an attempt that is not
\* the last
DelayOnlyAfterThrow ==
    /\ hc.pc = "sleep" => (JustThrew(hc) /\ hc.i + 1 < hc.retries)
    /\ Len(hc.delays) <= Len(hc.seen)
    /\ HealthDone => Len(hc.delays) < hc.probes \/ hc.probes = 0

DelaysStrictlyIncrease(h) ==
    \A k \in 1..(Len(h.delays) - 1) : h.delays[k] < h.delays[k + 1]

\* the thrown errors of the call are all transport-classified, or none is
OneErrorClass(h) ==
    \A j, k \in 1..Len(h.seen) :
        (AxiosSettle(h.seen[j]).kind = "thrown" /\ AxiosSettle(h.seen[k]).kind = "thrown")
            => (TransportFailure(h.seen[j]) <=> TransportFailure(h.seen[k]))

WakeAttemptFailed ==
    /\ wk.attempt >= 1
    /\ Len(wk.seen) = wk.attempt
    /\ ~OkReply(wk.seen[Len(wk.seen)])

\* C25: in wakeUpServer attempt 1 probes with a timeout of 5000 ms and
\* attempts 2 and 3 with 15000 ms; after a non-final attempt n that did not
\* confirm health exactly one sleep of 2000*n ms precedes attempt n+1,
\* whatever the failure was.
C25_WakeTimeoutsAndSleeps ==
    /\ Len(wk.timeouts) = wk.probes
    /\ \A k \in 1..Len(wk.timeouts) : wk.timeouts[k] = IF k = 1 THEN 5000 ELSE 15000
    /\ \A n \in 1..Len(wk.delays) : wk.delays[n] = 2000 * n
    /\ wk.pc = "get" => (wk.probes = wk.attempt /\ Len(wk.delays) = wk.attempt - 1)
    /\ wk.pc = "sleep" => (WakeAttemptFailed /\ Len(wk.delays) = wk.attempt)
    /\ WakeAttemptFailed =>
          IF wk.attempt < maxRetries
          THEN wk.pc = "sleep"
          ELSE WakeDone /\ wk.result = FALSE /\ Len(wk.delays) = maxRetries - 1

\* the third probe is out after a DNS error and a 404 without status 'ok'
C25_Witness ==
    /\ wk.pc = "get"
    /\ wk.attempt = 3
    /\ wk.seen = << [kind |-> "neterr", code |-> "ERR_NAME_NOT_RESOLVED"],
                    [kind |-> "http", status |-> 404, body |-> "other"] >>
    /\ wk.timeouts = <<5000, 15000, 15000>>
    /\ wk.delays = <<2000, 4000>>

\* C26: every result checkApiHealth returns has the fields success and url,
\* the url being the one that was checked, on success and on failure alike;
\* the field error appears only when success is false.
C26_ResultCarriesUrl ==
    HealthDone =>
        /\ {"success", "url"} \subseteq DOMAIN hc.result
        /\ hc.result.url = hc.url
        /\ "error" \in DOMAIN hc.result => hc.result.success = FALSE

(***************************************************************************)
(* Concurrent calls of the wake-and-retry client.                          *)
(***************************************************************************)
\* the calls whose wake-up sequence is in flight
Waking == {t \in Tasks : tasks[t].pc = "waking"}

\* a call runs at most one wake-up sequence, of at most 3 probes
WakeProbesBounded ==
    \A t \in Tasks : tasks[t].wakeSeqs <= 1 /\ tasks[t].wk.probes <= maxRetries

\* the step in which the first request of a call fails for want of a network
\* starts that call's own retry cycle, whatever the other calls are doing:
\* its wake-up (first probe sent), or first the resolution when another call
\* has the cache invalidated; the other calls are left as they are
OwnWakeStarted ==
    \A t \in Tasks :
        (/\ variant = "detect"
         /\ FirstRequest(tasks[t])
         /\ tasks'[t] # tasks[t]
         /\ Down(tasks'[t].reply)) =>
            /\ tasks'[t].retry
            /\ \/ /\ tasks'[t].pc = "waking"
                  /\ tasks'[t].wakeSeqs = 1
                  /\ tasks'[t].wk.probes = 1
               \/ /\ tasks'[t].pc = "retryResolve"
                  /\ ResolveRunning(tasks'[t].rs)
                  /\ cachedApiUrl = Null
            /\ \A s \in Tasks \ {t} : tasks'[s] = tasks[s]

\* C27: requests that fail concurrently with network errors are not
\* coordinated: each starts its own wake-up sequence, of up to 3 probes, so
\* two wake-up sequences can be in flight at the same time and k failing
\* requests can cause 3*k wake probes.
C27_IndependentWakeUps ==
    /\ []WakeProbesBounded
    /\ [][OwnWakeStarted]_vars

\* both calls are in their wake-up sequence, each at its third probe
C27_Witness ==
    /\ Waking = Tasks
    /\ \A t \in Tasks : tasks[t].wk.probes = maxRetries /\ tasks[t].wk.pc = "get"

(***************************************************************************)
(* The two cache fields.                                                   *)
(***************************************************************************)
\* C28: at every point where control can pass to another task apiUrlChecked
\* is true exactly when cachedApiUrl holds a value: the two fields are set
\* together at the end of a resolution and cleared together by the
\* interceptor's invalidation.
C28_CacheFieldsAgree == apiUrlChecked <=> cachedApiUrl # Null

\* the interceptor of one call has cleared the cache while the request of
\* another call is in flight
C28_Witness ==
    /\ cachedApiUrl = Null
    /\ ~apiUrlChecked
    /\ \E t, s \in Tasks : tasks[t].pc = "refreshing" /\ tasks[s].pc = "request"

\* the calls whose interceptor has invalidated the cache and awaits the new
\* resolution
Refreshing == {t \in Tasks : tasks[t].pc = "refreshing"}

\* a call has got past its first getApiUrlWithFallback
FirstResolutionDone == \E t \in Tasks : tasks[t].pc \notin {"idle", "creating"}

CachePopulated == Truthy(cachedApiUrl) /\ apiUrlChecked

\* after the first resolution the cache is empty only while an interceptor
\* that invalidated it awaits its new resolution
PopulatedOutsideRefresh ==
    (FirstResolutionDone /\ Refreshing = {}) => CachePopulated

\* the step in which that resolution returns leaves the cache populated
RefreshRepopulates ==
    \A t \in Tasks : RefreshEnds(t) => CachePopulated'

\* C30: whenever the response interceptor invalidates the cache, the cache is
\* populated again before that interceptor settles: in every state, after the
\* first resolution, where no retry cycle is in flight cachedApiUrl is
\* non-null and apiUrlChecked is true.
C30_InvalidationRepopulates ==
    /\ []PopulatedOutsideRefresh
    /\ [][RefreshRepopulates]_vars

\* a call whose wake-up failed re-resolved, was re-issued and has been
\* rejected; no retry cycle is in flight and the cache is populated
C30_Witness ==
    /\ \E t \in Tasks :
          /\ tasks[t].pc = "rejected"
          /\ tasks[t].wakeSeqs = 1
          /\ tasks[t].reissues = 1
          /\ ~Woke(tasks[t])
    /\ \A t \in Tasks : tasks[t].pc \notin {"retryResolve", "waking", "refreshing"}
    /\ CachePopulated

(***************************************************************************)
(* More properties of endpoint resolution.                                 *)
(***************************************************************************)
\* C29: getApiUrlWithFallback never returns and never caches a null or an
\* empty URL, whatever the configured value (absent, empty, whitespace,
\* slashes only, a URL) and whatever the probes and the detection give.
C29_ResolvedUrlNonEmpty ==
    /\ \A k \in 1..Len(returned) : Truthy(returned[k].url)
    /\ apiUrlChecked => Truthy(cachedApiUrl)

(***************************************************************************)
(* The cost of one auto-detecting resolution.                              *)
(***************************************************************************)
\* what a run that missed the cache ended with: the URL of its first healthy
\* check, which is its last check, or else the configured URL, or the local
\* default when none is configured
EndsWithFirstHealthy(ret) ==
    /\ \A j \in Successes(ret.log) : j = Len(ret.log) /\ ret.url = ret.log[j][1]
    /\ Successes(ret.log) = {} => ret.url = DetectBase

\* the health checks of a run are in the order: the initial URL, the
\* configured URL, the candidates in list order
ChecksInOrder(log) ==
    \A j \in 1..Len(log) :
        \/ log[j][1] = DetectBase /\ j <= 2
        \/ \E c \in 1..Len(possibleUrls) :
              /\ log[j][1] = possibleUrls[c]
              /\ \A i \in 1..(j - 1) :
                    log[i][1] \in {DetectBase} \cup {possibleUrls[d] : d \in 1..(c - 1)}

\* the probes a running resolution has issued, and those of completed runs
ProbesBounded ==
    /\ rs.probes <= 7
    /\ Len(rs.log) <= 4
    /\ \A k \in 1..Len(returned) : returned[k].probes <= 7

\* a run that has just returned has cached the URL it returned
CachedOnReturn ==
    rs.pc = "done" => (cachedApiUrl = rs.result /\ apiUrlChecked /\ Truthy(rs.result))

\* C31: in part_001 one run of getApiUrlWithFallback issues at most 7 health
\* probes (1 for the initial URL, 2 for the configured URL, 2 for each of the
\* 2 candidates, in list order), terminates, and ends by caching a URL: the
\* first healthy one found, or the configured URL or http://localhost:5000
\* when none is healthy.
C31_DetectionBoundedAndCaches ==
    /\ [](variant = "detect" =>
            /\ ProbesBounded
            /\ CachedOnReturn
            /\ \A k \in 1..Len(returned) :
                  ~returned[k].hit =>
                      /\ EndsWithFirstHealthy(returned[k])
                      /\ ChecksInOrder(returned[k].log))
    /\ (variant = "detect" /\ ResolveRunning(rs)) ~> (rs.pc = "done")

\* a run probed the configured URL once, then twice, then each candidate
\* twice, found none healthy and returned the configured URL
C31_Witness ==
    /\ variant = "detect"
    /\ Len(returned) >= 1
    /\ returned[1].probes = 7
    /\ Len(returned[1].log) = 4
    /\ Successes(returned[1].log) = {}
    /\ returned[1].url = envUrl
    /\ cachedApiUrl = envUrl

(***************************************************************************)
(* Responses without status 'ok' in checkApiHealth.                        *)
(***************************************************************************)
\* an HTTP response below 500 whose body is not status 'ok'
NotOkResponse(raw) ==
    AxiosSettle(raw).kind = "response" /\ ~BodyIsOk(AxiosSettle(raw))

\* the probe of the call is answered in this step
ProbeAnswered == hc.pc = "get" /\ Len(hc'.seen) = Len(hc.seen) + 1

\* the step that takes such a response starts no timer and raises nothing:
\* the next probe goes out in the same step, or, after the last attempt,
\* {success:false} is returned
NotOkGoesOn ==
    (ProbeAnswered /\ NotOkResponse(hc'.seen[Len(hc'.seen)])) =>
        /\ hc'.delays = hc.delays
        /\ IF hc.i + 1 < hc.retries
           THEN /\ hc'.pc = "get"
                /\ hc'.probes = hc.probes + 1
                /\ hc'.i = hc.i + 1
           ELSE /\ hc'.pc = "done"
                /\ hc'.result = [success |-> FALSE]
                /\ hc'.probes = hc.probes

\* a call whose last answer was such a response is not in a backoff, and if
\* it has returned its result has no error field
NotOkLeavesNoError ==
    (hc.seen # <<>> /\ NotOkResponse(hc.seen[Len(hc.seen)])) =>
        /\ hc.pc \in {"get", "done"}
        /\ HealthDone => /\ hc.result = [success |-> FALSE]
                         /\ "error" \notin DOMAIN hc.result
                         /\ Len(hc.seen) = hc.retries

UploadInFlight(p) == p.h.pc = "upload"

\* the step issues the upload request of a file
IssuesUpload == Len(page'.sent) > Len(page.sent)

\* while an upload request is in flight it is the only one, requests have
\* gone out for the files before it in list order, the list is not empty and
\* the server is not marked offline
OneAtATimeWhileOnline ==
    UploadInFlight(page) =>
        /\ page.h.i \in 1..Len(page.h.files)
        /\ SentOnce(page, page.h.i)
        /\ Len(page.files) > 0
        /\ page.serverStatus # "offline"

\* the request of the first file goes out when the pre-flight health check
\* returns, that of file i+1 when the response for file i reports success;
\* none goes out with the server marked offline
IssuedAfterSuccess ==
    IssuesUpload =>
        /\ page'.sent = Append(page.sent, Len(page.sent) + 1)
        /\ UploadInFlight(page')
        /\ page'.serverStatus # "offline"
        /\ IF page.sent = <<>>
           THEN page.h.pc = "preflight"
           ELSE /\ UploadInFlight(page)
                /\ page'.reply = [kind |-> "response", success |-> TRUE]

\* C33: on the Upload page upload requests are issued strictly one at a time
\* in list order, that of file i+1 only after the response for file i
\* reported success and only after the pre-flight health check has
\* returned, and none is ever issued while serverStatus is 'offline' or the
\* file list is empty.
C33_UploadsInOrderWhileOnline ==
    /\ []OneAtATimeWhileOnline
    /\ [][IssuedAfterSuccess]_vars

====
